---- MODULE Spec2Model ----
(***************************************************************************)
(* The todo program and its reminder daemon, in its three variants:        *)
(*                                                                         *)
(*   F  the flat-file program with repeat intervals, whose own --daemon    *)
(*      mode is the firing loop                    (src/unnamed/part_001)  *)
(*   N  the flat-file program with a separate notification file and its    *)
(*      daemon                       (src/todo.cpp, src/unnamed/part_006)  *)
(*   S  the SQLite program and its daemon                                  *)
(*                         (src/unnamed/part_002, src/todo_daemon.cpp)     *)
(*                                                                         *)
(* Each variant has its own variables (prefix F_, N_, S_) and its own      *)
(* specification (SpecF, SpecN, SpecS); the clock `now` is shared.         *)
(* The list view of the two programs that have a category filter          *)
(* (src/todo.cpp and src/unnamed/part_002) is a fourth part, with the      *)
(* variables V_ and the specification SpecV.                               *)
(*                                                                         *)
(* Modelling decisions that hold throughout:                               *)
(*  - time is the epoch second returned by time()/system_clock; it only    *)
(*    moves in the Tick actions, every other step is instantaneous;        *)
(*  - std::ofstream(file) truncates the file when it is opened and writes   *)
(*    its buffer at offset 0 when it is closed (the files are far smaller  *)
(*    than the stream buffer), so a save is two steps, truncate and flush, *)
(*    and another process can run between them; a load is one read.        *)
(*    Variant F is modelled so; in variant N a save and a whole daemon     *)
(*    iteration are single steps, which removes behaviours and adds none;  *)
(*  - a file is a sequence of records, one per line; a flush overwrites    *)
(*    the file from its start, record for record;                          *)
(*  - a task's text is drawn fresh for every add (a natural number stands  *)
(*    for the string); the records of N and S also carry the number of the *)
(*    add that made them (field id in N), which no action reads.           *)
(***************************************************************************)
EXTENDS Integers, Sequences, FiniteSets, TLC

(***************************************************************************)
(* Bounds of the model.                                                    *)
(***************************************************************************)
\* first clock value: the second at which the model starts
Epoch0 == 10
\* number of tasks ever added in one behaviour of variant F
F_MaxTasks == 1
\* number of tasks ever added in one behaviour of variants N and S
MaxTasks == 2
\* number of reminders ever set in one behaviour of variants N and S
MaxNotifs == 2
\* clock horizon of variants N and S, in seconds after Epoch0
MaxSecs == 3
\* clock horizon of variant F, in hours after Epoch0
MaxHours == 3
\* list view: every content of a store of up to MaxViewTasks tasks is an input
MaxViewTasks == 2
\* list view: length of the long lists (longer than a page of PageStep rows)
LongTasks == 12
\* list view: a task's text wraps over 1..MaxLines display lines
MaxLines == 2
\* list view: the list window shows 1..MaxVisible lines
MaxVisible == 2
\* list view: number of tasks deleted in one behaviour
MaxDeletes == 1

(***************************************************************************)
(* Program constants.                                                      *)
(***************************************************************************)
\* seconds per hour: "hours * 3600L", "freqH * 3600"
HourSecs == 3600
\* std::this_thread::sleep_for(std::chrono::seconds(60))
PollSecs == 60
\* "clamp to 7 days = 168h"
MaxReminderHours == 168
\* std::this_thread::sleep_for(std::chrono::seconds(1)) of the daemons of N and S
SleepSecs == 1
\* "n.scheduledTime > (now - 2)": the width of the firing window of N's daemon
FireWindow == 2
\* rows moved by KEY_PPAGE and KEY_NPAGE
PageStep == 10

VARIABLES
    now,                \* the wall clock, seconds since the epoch
    \* ---- variant F: files
    F_currentFile,      \* current.txt: sequence of task records
    F_completedFile,    \* completed.txt: the task texts (no process reads the
                        \* reminder fields of a completed task but the UI)
    \* ---- variant F: the foreground process
    F_fpc,              \* "off" | "ui" | "flush" (between truncate and flush of 'q')
    F_currentTasks,     \* currentTasks/currentReminderEpoch/currentReminderIntervalHrs
    F_completedTasks,   \* completedTasks
    F_nextText,         \* the next fresh task text
    \* ---- variant F: the daemon process (runDaemonLoop)
    F_dpc,              \* "poll" | "save" | "flush" | "sleep"
    F_dTasks,           \* tasks/reEpochs/reIntervals of the running iteration
    \* ---- variant F: history (what happened, not program state)
    F_termFires,        \* per task text: notifier invocations for its reminder while
                        \* it had no repeat interval, since the last set-reminder
    F_cycleFired,       \* the repeating reminders fired by the daemon's iteration,
                        \* kept while its write-back is what current.txt holds
    F_fTear,            \* the foreground truncated a non-empty current.txt and has
                        \* a non-empty list to write
    F_dTear,            \* the same for the daemon
    F_tornRead,         \* some load saw current.txt between truncate and flush
    F_deleted           \* the texts of the tasks the user has deleted

varsF == << F_currentFile, F_completedFile, F_fpc, F_currentTasks, F_completedTasks,
            F_nextText, F_dpc, F_dTasks, F_termFires, F_cycleFired,
            F_fTear, F_dTear, F_tornRead, F_deleted >>

\* ---- variant N
VARIABLES
    N_notifFile,        \* notifications.db
    N_todoFile,         \* todo.db
    N_fpc,              \* foreground: "off" | "ui"
    N_allTasks,         \* allTasks
    N_currentTasks,     \* currentTasks
    N_completedTasks,   \* completedTasks
    N_nextText,         \* the next fresh task text and id
    N_dpc,              \* daemon: "poll" (about to load) | "sleep" (in sleep_for)
    \* ---- history
    N_deleted,          \* ids of the tasks the user has deleted
    N_firedGone         \* the daemon has fired a reminder of a deleted task that
                        \* todo.db no longer holds

varsN == << N_notifFile, N_todoFile, N_fpc, N_allTasks, N_currentTasks,
            N_completedTasks, N_nextText, N_dpc, N_deleted, N_firedGone >>

\* ---- variant S
VARIABLES
    S_tasks,            \* table tasks: set of rows [id, created_at, completed, completed_at]
    S_notifs,           \* table notifications: set of rows [id, task_id, st, trig]
    S_nextTaskId,       \* AUTOINCREMENT of tasks
    S_nextNotifId,      \* AUTOINCREMENT of notifications
    S_cSel,             \* per UI instance: tasks[selectedIndex].id read by
                        \* completeTaskUI and not yet marked, 0 if none
    S_dpc,              \* daemon: "fetch" | "fire" | "sleep"
    S_dNotifs,          \* daemon: notifs, the part of the fetched list still to fire
    \* ---- history
    S_firstDone,        \* per task id: the second of its first completion, 0 if none
    S_badFire           \* the daemon has called the notifier for a reminder with
                        \* scheduled_time 0, or not yet due, or already triggered

varsS == << S_tasks, S_notifs, S_nextTaskId, S_nextNotifId, S_cSel, S_dpc, S_dNotifs,
            S_firstDone, S_badFire >>

\* ---- list view of src/todo.cpp and src/unnamed/part_002
VARIABLES
    V_build,            \* which program runs: "todo.cpp" | "part_002"
    V_store,            \* the stored tasks in creation order, as records
                        \* [id, category, lines, completed]: lines is the number
                        \* of display lines the task's text wraps to
    V_visibleLines,     \* getmaxy(listWin) - 2
    V_viewMode,         \* viewMode: 0 current, 1 completed
    V_selectedIndex,    \* selectedIndex (0-based)
    V_activeFilterCategory, \* activeFilterCategory
    V_scrollOffset,     \* scrollOffset of drawListUI, gScrollOffset of part_002
    V_gTasks,           \* gTasks, the list cached by drawListUIFull (part_002)
    V_drawn,            \* indices of the filtered list whose rows are on screen
    \* ---- history
    V_preSel,           \* selectedIndex as the last handler left it for the
                        \* redraw (or for updateSelectionDisplay)
    V_nDeleted,         \* number of tasks deleted so far
    V_sKey,             \* the last 's' overlay: [id, cat], the task it was opened
                        \* on and the string typed; id 0 before the first one
    V_reminded          \* ids of the tasks addReminderToTask was called for

varsV == << V_build, V_store, V_visibleLines, V_viewMode, V_selectedIndex,
            V_activeFilterCategory, V_scrollOffset, V_gTasks, V_drawn, V_preSel,
            V_nDeleted, V_sKey, V_reminded >>

(***************************************************************************)
(* Variant P: src/unnamed/part_001 with current.txt as text.  A string is  *)
(* a sequence of one-character strings, the file the sequence of its lines.*)
(***************************************************************************)
VARIABLES
    P_file,             \* current.txt
    P_fpc,              \* foreground: "off" | "ui"
    P_tasks,            \* currentTasks, currentDates, currentCategories,
                        \* currentReminderEpoch, currentReminderIntervalHrs as one
                        \* sequence of records [task, date, cat, re, ri] of strings
    P_daemon,           \* the daemon process: "run" | "dead"
    P_notified          \* the calls of system("notify-send ..."): records
                        \* [body, rc], the task text and the status returned

varsP == << P_file, P_fpc, P_tasks, P_daemon, P_notified >>

(***************************************************************************)
(* Variant W: the word wrap of src/unnamed/part_002, countWrappedLines and *)
(* drawWrappedText run on the same text and width, one loop iteration per  *)
(* step.                                                                   *)
(***************************************************************************)
VARIABLES
    W_text,             \* text, a sequence of one-character strings
    W_width,            \* width
    W_cPos,             \* countWrappedLines: pos
    W_cCount,           \* countWrappedLines: lineCount
    W_cRet,             \* countWrappedLines: the value returned, 0 while it runs
    W_dPos,             \* drawWrappedText: pos
    W_dCount,           \* drawWrappedText: lineCount
    W_dRet,             \* drawWrappedText: the value returned, 0 while it runs
    W_drawn             \* the buffers given to mvwprintw, in order

varsW == << W_text, W_width, W_cPos, W_cCount, W_cRet, W_dPos, W_dCount, W_dRet, W_drawn >>

(***************************************************************************)
(* Helpers on sequences.                                                   *)
(***************************************************************************)
Min2(a, b) == IF a <= b THEN a ELSE b

\* s without its i-th element: vector::erase(begin() + i)
Erase(s, i) == SubSeq(s, 1, i - 1) \o SubSeq(s, i + 1, Len(s))

\* an ofstream's buffer written at offset 0 of a file that another writer may
\* have filled since this writer truncated it
Overwrite(content, file) == content \o SubSeq(file, Len(content) + 1, Len(file))

(***************************************************************************)
(* Variant F: pure parts of src/unnamed/part_001.                          *)
(***************************************************************************)
\* setReminderOverlay: hours as parsed from the input ("" and invalid input parse
\* to 0); below 1 means no reminder, above 168 is clamped, else now + hours*3600
ReminderHours(hours) ==
    LET h1 == IF hours < 1 THEN 0 ELSE hours
    IN  IF h1 > 24 * 7 THEN MaxReminderHours ELSE h1

ReminderEpoch(hours, nowSec) ==
    IF ReminderHours(hours) = 0 THEN 0 ELSE nowSec + ReminderHours(hours) * HourSecs

\* an interval overlay without the upper limit
OverdueFreqUnclamped(hours) ==
    IF hours < 1 THEN 0 ELSE hours

\* setOverdueFrequencyOverlay: the stored interval in hours
OverdueFreq(hours) ==
    LET f1 == IF hours < 1 THEN 0 ELSE hours
    IN  IF f1 > MaxReminderHours THEN MaxReminderHours ELSE f1

\* runDaemonLoop step 3, the test "epoch > 0 && nowSec >= epoch"
F_Due(epoch, nowSec) == epoch > 0 /\ nowSec >= epoch

\* runDaemonLoop step (C), the mutant: rescheduling from the time of the poll
NextEpochFromNow(epoch, freqH, nowSec) ==
    IF freqH > 0 THEN nowSec + freqH * HourSecs ELSE 0

\* runDaemonLoop step (C): the reminder epoch written back after a firing
NextEpoch(epoch, freqH, nowSec) ==
    IF freqH > 0 THEN epoch + freqH * HourSecs ELSE 0

\* one record of the daemon's loop: what is stored for it after step 3
F_Processed(r, nowSec) ==
    IF F_Due(r.re, nowSec) THEN [r EXCEPT !.re = NextEpoch(r.re, r.ri, nowSec)] ELSE r

\* the inputs typed into the two overlays, as parsed hours
F_HoursInputs == {0, 1}
\* the hours typed into the frequency overlay: below 1, none (empty or invalid
\* input), 1, above MaxReminderHours
F_FreqInputs  == {0 - 1, 0, 1, MaxReminderHours + 32}

F_Texts == 1..F_MaxTasks
F_MaxNow == Epoch0 + MaxHours * HourSecs

F_NewTask(text, hours, freq, nowSec) ==
    [task |-> text, re |-> ReminderEpoch(hours, nowSec), ri |-> OverdueFreq(freq)]

F_Bump(n) == Min2(n + 1, 2)

(***************************************************************************)
(* Variant F: the foreground process (main, part_001 836-1165).            *)
(* The selected row is any row: selection, view and filter only choose it. *)
(***************************************************************************)
F_ghostUnch == << F_termFires, F_cycleFired, F_fTear, F_dTear, F_tornRead, F_deleted >>
F_daemonUnch == << F_dpc, F_dTasks >>

\* startup: loadTasks of both files
F_Start ==
    /\ F_fpc = "off"
    /\ F_fpc' = "ui"
    /\ F_currentTasks' = F_currentFile
    /\ F_completedTasks' = F_completedFile
    /\ F_tornRead' = (F_tornRead \/ (F_dpc = "flush" /\ F_dTear /\ F_currentFile = << >>))
    /\ UNCHANGED << now, F_currentFile, F_completedFile, F_nextText, F_daemonUnch,
                    F_termFires, F_cycleFired, F_fTear, F_dTear >>
    /\ UNCHANGED << F_deleted, varsN, varsS, varsV, varsP, varsW >>

\* 'n': addTaskOverlay, with the reminder and frequency overlays it opens
F_AddTask(hours, freq) ==
    /\ F_fpc = "ui"
    /\ F_nextText <= F_MaxTasks
    /\ F_currentTasks' = Append(F_currentTasks, F_NewTask(F_nextText, hours, freq, now))
    /\ F_nextText' = F_nextText + 1
    /\ F_termFires' = [F_termFires EXCEPT ![F_nextText] = 0]
    /\ UNCHANGED << now, F_currentFile, F_completedFile, F_fpc, F_completedTasks,
                    F_daemonUnch, F_cycleFired, F_fTear, F_dTear, F_tornRead >>
    /\ UNCHANGED << F_deleted, varsN, varsS, varsV, varsP, varsW >>

\* 'R': setReminderOverlay on the selected row of the current view (in the completed
\* view it changes the reminder fields of a completed task, which are not tracked)
F_SetReminder(i, hours) ==
    /\ F_fpc = "ui"
    /\ i \in 1..Len(F_currentTasks)
    /\ F_currentTasks' = [F_currentTasks EXCEPT ![i].re = ReminderEpoch(hours, now)]
    /\ F_termFires' = [F_termFires EXCEPT ![F_currentTasks[i].task] = 0]
    /\ UNCHANGED << now, F_currentFile, F_completedFile, F_fpc, F_completedTasks,
                    F_nextText, F_daemonUnch, F_cycleFired, F_fTear, F_dTear, F_tornRead >>
    /\ UNCHANGED << F_deleted, varsN, varsS, varsV, varsP, varsW >>

\* 'O': setOverdueFrequencyOverlay on the selected row of the current view
F_SetFreq(i, freq) ==
    /\ F_fpc = "ui"
    /\ i \in 1..Len(F_currentTasks)
    /\ F_currentTasks' = [F_currentTasks EXCEPT ![i].ri = OverdueFreq(freq)]
    /\ UNCHANGED << now, F_currentFile, F_completedFile, F_fpc, F_completedTasks,
                    F_nextText, F_daemonUnch, F_ghostUnch >>
    /\ UNCHANGED << varsN, varsS, varsV, varsP, varsW >>

\* 'c': completeTask, only in the current view
F_Complete(i) ==
    /\ F_fpc = "ui"
    /\ i \in 1..Len(F_currentTasks)
    /\ F_completedTasks' = Append(F_completedTasks, F_currentTasks[i].task)
    /\ F_currentTasks' = Erase(F_currentTasks, i)
    /\ UNCHANGED << now, F_currentFile, F_completedFile, F_fpc, F_nextText,
                    F_daemonUnch, F_ghostUnch >>
    /\ UNCHANGED << varsN, varsS, varsV, varsP, varsW >>

\* 'd': deleteTask, in either view
F_Delete(forCompleted, i) ==
    /\ F_fpc = "ui"
    /\ IF forCompleted
       THEN /\ i \in 1..Len(F_completedTasks)
            /\ F_completedTasks' = Erase(F_completedTasks, i)
            /\ F_deleted' = F_deleted \cup {F_completedTasks[i]}
            /\ UNCHANGED F_currentTasks
       ELSE /\ i \in 1..Len(F_currentTasks)
            /\ F_currentTasks' = Erase(F_currentTasks, i)
            /\ F_deleted' = F_deleted \cup {F_currentTasks[i].task}
            /\ UNCHANGED F_completedTasks
    /\ UNCHANGED << now, F_currentFile, F_completedFile, F_fpc, F_nextText,
                    F_daemonUnch, F_termFires, F_cycleFired, F_fTear,
                    F_dTear, F_tornRead >>
    /\ UNCHANGED << varsN, varsS, varsV, varsP, varsW >>

\* 'q', first half: saveTasks(currentFile, ...) has opened (truncated) the file
F_QuitTrunc ==
    /\ F_fpc = "ui"
    /\ F_fpc' = "flush"
    /\ F_fTear' = (F_currentFile # << >> /\ F_currentTasks # << >>)
    /\ F_currentFile' = << >>
    /\ F_cycleFired' = {}
    /\ UNCHANGED << now, F_completedFile, F_currentTasks, F_completedTasks, F_nextText,
                    F_daemonUnch, F_termFires, F_dTear, F_tornRead >>
    /\ UNCHANGED << F_deleted, varsN, varsS, varsV, varsP, varsW >>

\* 'q', second half: the stream is closed, completed.txt is saved, the process ends
F_QuitFlush ==
    /\ F_fpc = "flush"
    /\ F_fpc' = "off"
    /\ F_currentFile' = Overwrite(F_currentTasks, F_currentFile)
    /\ F_completedFile' = F_completedTasks
    /\ F_fTear' = FALSE
    /\ F_cycleFired' = {}
    /\ UNCHANGED << now, F_currentTasks, F_completedTasks, F_nextText, F_daemonUnch,
                    F_termFires, F_dTear, F_tornRead >>
    /\ UNCHANGED << F_deleted, varsN, varsS, varsV, varsP, varsW >>

(***************************************************************************)
(* Variant F: the daemon (runDaemonLoop, part_001 786-834).                *)
(***************************************************************************)
F_fgUnch == << F_fpc, F_currentTasks, F_completedTasks, F_nextText >>

\* steps 1-3: reload, take the time, notify for every due task and reschedule it
F_DaemonPoll ==
    /\ F_dpc = "poll"
    /\ F_dpc' = "save"
    /\ F_dTasks' = [i \in 1..Len(F_currentFile) |-> F_Processed(F_currentFile[i], now)]
    /\ F_cycleFired' =
         { [idx |-> i, T |-> F_currentFile[i].re, I |-> F_currentFile[i].ri, at |-> now] :
           i \in { j \in 1..Len(F_currentFile) :
                     F_Due(F_currentFile[j].re, now) /\ F_currentFile[j].ri > 0 } }
    /\ F_termFires' =
         [t \in F_Texts |->
            IF \E i \in 1..Len(F_currentFile) :
                 /\ F_currentFile[i].task = t
                 /\ F_Due(F_currentFile[i].re, now)
                 /\ F_currentFile[i].ri = 0
            THEN F_Bump(F_termFires[t]) ELSE F_termFires[t]]
    /\ F_tornRead' = (F_tornRead \/ (F_fpc = "flush" /\ F_fTear /\ F_currentFile = << >>))
    /\ UNCHANGED << now, F_currentFile, F_completedFile, F_fgUnch, F_fTear, F_dTear >>
    /\ UNCHANGED << F_deleted, varsN, varsS, varsV, varsP, varsW >>

\* step 4, first half: saveTasks has opened (truncated) current.txt
F_DaemonTrunc ==
    /\ F_dpc = "save"
    /\ F_dpc' = "flush"
    /\ F_dTear' = (F_currentFile # << >> /\ F_dTasks # << >>)
    /\ F_currentFile' = << >>
    /\ UNCHANGED << now, F_completedFile, F_fgUnch, F_dTasks, F_termFires,
                    F_cycleFired, F_fTear, F_tornRead >>
    /\ UNCHANGED << F_deleted, varsN, varsS, varsV, varsP, varsW >>

\* step 4, second half, and step 5: the stream is closed, the loop sleeps
F_DaemonFlush ==
    /\ F_dpc = "flush"
    /\ F_dpc' = "sleep"
    /\ F_currentFile' = Overwrite(F_dTasks, F_currentFile)
    /\ F_dTear' = FALSE
    /\ F_dTasks' = << >>
    /\ UNCHANGED << now, F_completedFile, F_fgUnch, F_termFires,
                    F_cycleFired, F_fTear, F_tornRead >>
    /\ UNCHANGED << F_deleted, varsN, varsS, varsV, varsP, varsW >>

\* the clock of variant F moves in whole hours; sleep_for(60 s) has returned by then
F_TickHour ==
    /\ now + HourSecs <= F_MaxNow
    /\ now' = now + HourSecs
    /\ F_dpc' = IF F_dpc = "sleep" /\ HourSecs >= PollSecs THEN "poll" ELSE F_dpc
    /\ F_cycleFired' = {}
    /\ UNCHANGED << F_currentFile, F_completedFile, F_fgUnch, F_dTasks, F_termFires,
                    F_fTear, F_dTear, F_tornRead >>
    /\ UNCHANGED << F_deleted, varsN, varsS, varsV, varsP, varsW >>

(***************************************************************************)
(* Variant N: src/todo.cpp (foreground) and src/unnamed/part_006 (daemon). *)
(* todo.db holds the tasks, notifications.db the reminders as              *)
(* "epoch;triggered;message" lines.  A task record is                      *)
(* [id, d0, task, completed]: d0 is dates[0], the creation second, which   *)
(* the code uses to find a task in allTasks; the category, dates[1] and    *)
(* the task's copy of its notification are not tracked.  A reminder record *)
(* is [st, trig, msg, owner]: owner is the id of the task the reminder was *)
(* set for (0 for none), it is not in the file and no action reads it.     *)
(* A text is a natural number, 0 for the empty string.                     *)
(***************************************************************************)
N_Offsets == {0, 1}
N_MaxNow == Epoch0 + MaxSecs

\* setReminderOverlay: "offsetSeconds == 0 ? 0 : scheduledTime"
N_ScheduledTime(offsetSeconds, nowSec) ==
    IF offsetSeconds = 0 THEN 0 ELSE nowSec + offsetSeconds

\* the daemon's test, part_006 line 94
N_Due(n, nowSec) ==
    ~n.trig /\ (n.st <= nowSec /\ n.st > nowSec - FireWindow)

\* index of the first task of list with creation second d0, 0 if none
N_FirstWithDate(list, d0) ==
    IF \E j \in 1..Len(list) : list[j].d0 = d0
    THEN CHOOSE j \in 1..Len(list) :
            /\ list[j].d0 = d0
            /\ \A k \in 1..(j - 1) : list[k].d0 # d0
    ELSE 0

N_IsCompleted(t) == t.completed
N_IsCurrent(t) == ~t.completed
N_View(forCompleted) == IF forCompleted THEN N_completedTasks ELSE N_currentTasks

N_histUnch == << N_deleted, N_firedGone >>

\* what the user leaves in the edit overlay: nothing, or one of the texts
N_EditInputs == 0..MaxTasks

\* startup: loadNotifications, loadTasksFromFile, filterTasks
N_Start ==
    /\ N_fpc = "off"
    /\ N_fpc' = "ui"
    /\ N_allTasks' = N_todoFile
    /\ N_currentTasks' = SelectSeq(N_todoFile, N_IsCurrent)
    /\ N_completedTasks' = SelectSeq(N_todoFile, N_IsCompleted)
    /\ UNCHANGED << now, N_notifFile, N_todoFile, N_nextText, N_dpc, N_histUnch >>
    /\ UNCHANGED << varsF, varsS, varsV, varsP, varsW >>

\* 'n': addTaskOverlay
N_AddTask ==
    /\ N_fpc = "ui"
    /\ N_nextText <= MaxTasks
    /\ LET t == [id |-> N_nextText, d0 |-> now, task |-> N_nextText, completed |-> FALSE]
       IN /\ N_allTasks' = Append(N_allTasks, t)
          /\ N_currentTasks' = Append(N_currentTasks, t)
    /\ N_nextText' = N_nextText + 1
    /\ UNCHANGED << now, N_notifFile, N_todoFile, N_fpc, N_completedTasks, N_dpc,
                    N_histUnch >>
    /\ UNCHANGED << varsF, varsS, varsV, varsP, varsW >>

\* 'c': completeTask, only in the current view
N_Complete(i) ==
    /\ N_fpc = "ui"
    /\ i \in 1..Len(N_currentTasks)
    /\ LET t == [N_currentTasks[i] EXCEPT !.completed = TRUE]
           j == N_FirstWithDate(N_allTasks, t.d0)
       IN /\ N_allTasks' = IF j = 0 THEN N_allTasks
                           ELSE [N_allTasks EXCEPT ![j].completed = TRUE]
          /\ N_completedTasks' = Append(N_completedTasks, t)
          /\ N_currentTasks' = Erase(N_currentTasks, i)
    /\ UNCHANGED << now, N_notifFile, N_todoFile, N_fpc, N_nextText, N_dpc, N_histUnch >>
    /\ UNCHANGED << varsF, varsS, varsV, varsP, varsW >>

\* 'd': deleteTask, in either view; notifications.db is not touched
N_Delete(forCompleted, i) ==
    /\ N_fpc = "ui"
    /\ i \in 1..Len(N_View(forCompleted))
    /\ LET delTask == N_View(forCompleted)[i]
           j == N_FirstWithDate(N_allTasks, delTask.d0)
       IN /\ N_allTasks' = IF j = 0 THEN N_allTasks ELSE Erase(N_allTasks, j)
          /\ N_deleted' = N_deleted \cup {delTask.id}
    /\ IF forCompleted
       THEN /\ N_completedTasks' = Erase(N_completedTasks, i)
            /\ UNCHANGED N_currentTasks
       ELSE /\ N_currentTasks' = Erase(N_currentTasks, i)
            /\ UNCHANGED N_completedTasks
    /\ UNCHANGED << now, N_notifFile, N_todoFile, N_fpc, N_nextText, N_dpc, N_firedGone >>
    /\ UNCHANGED << varsF, varsS, varsV, varsP, varsW >>

\* 'e': editTask on row i of a view; edited_task is what editTaskOverlay returns:
\* 0 stands for the empty string (ESC, or Enter on an emptied line), any other
\* number for a typed text.  Every task of allTasks with the row's creation second
\* gets the text.
N_EditTask(forCompleted, i, edited_task) ==
    /\ N_fpc = "ui"
    /\ i \in 1..Len(N_View(forCompleted))
    /\ LET d0 == N_View(forCompleted)[i].d0
       IN N_allTasks' = [j \in 1..Len(N_allTasks) |->
                            IF N_allTasks[j].d0 = d0
                            THEN [N_allTasks[j] EXCEPT !.task = edited_task]
                            ELSE N_allTasks[j]]
    /\ IF forCompleted
       THEN /\ N_completedTasks' = [N_completedTasks EXCEPT ![i].task = edited_task]
            /\ UNCHANGED N_currentTasks
       ELSE /\ N_currentTasks' = [N_currentTasks EXCEPT ![i].task = edited_task]
            /\ UNCHANGED N_completedTasks
    /\ UNCHANGED << now, N_notifFile, N_todoFile, N_fpc, N_nextText, N_dpc, N_histUnch >>
    /\ UNCHANGED << varsF, varsS, varsV, varsP, varsW >>

\* 'r': loadNotifications (top of the key loop), setReminderOverlay, then
\* notifications.push_back(new_reminder); saveNotifications().  i = 0: the view is
\* empty, no row is selected and the message stays "Task reminder" (0).
N_SetReminder(forCompleted, i, offsetSeconds) ==
    /\ N_fpc = "ui"
    /\ Len(N_notifFile) < MaxNotifs
    /\ \/ i = 0 /\ N_View(forCompleted) = << >>
       \/ i \in 1..Len(N_View(forCompleted))
    /\ LET matched == /\ i # 0
                      /\ \E j \in 1..Len(N_allTasks) :
                            /\ N_allTasks[j].d0 = N_View(forCompleted)[i].d0
                            /\ N_allTasks[j].task = N_View(forCompleted)[i].task
           new_reminder ==
               [st |-> N_ScheduledTime(offsetSeconds, now),
                trig |-> FALSE,
                msg |-> IF matched THEN N_View(forCompleted)[i].task ELSE 0,
                owner |-> IF matched THEN N_View(forCompleted)[i].id ELSE 0]
       IN N_notifFile' = Append(N_notifFile, new_reminder)
    /\ UNCHANGED << now, N_todoFile, N_fpc, N_allTasks, N_currentTasks,
                    N_completedTasks, N_nextText, N_dpc, N_histUnch >>
    /\ UNCHANGED << varsF, varsS, varsV, varsP, varsW >>

\* 'q': saveTasks; loadNotifications; saveNotifications; the process ends
N_Quit ==
    /\ N_fpc = "ui"
    /\ N_fpc' = "off"
    /\ N_todoFile' = N_allTasks
    /\ UNCHANGED << now, N_notifFile, N_allTasks, N_currentTasks, N_completedTasks,
                    N_nextText, N_dpc, N_histUnch >>
    /\ UNCHANGED << varsF, varsS, varsV, varsP, varsW >>

\* one iteration of the daemon's loop (part_006 83-110): load, fire what is in
\* the window, save if anything fired, sleep
N_DaemonPoll ==
    /\ N_dpc = "poll"
    /\ LET fired == { k \in 1..Len(N_notifFile) : N_Due(N_notifFile[k], now) }
       IN /\ N_notifFile' = [k \in 1..Len(N_notifFile) |->
                               IF k \in fired
                               THEN [N_notifFile[k] EXCEPT !.trig = TRUE]
                               ELSE N_notifFile[k]]
          /\ N_firedGone' =
                (N_firedGone \/ \E k \in fired :
                    /\ N_notifFile[k].owner \in N_deleted
                    /\ \A j \in 1..Len(N_todoFile) :
                          N_todoFile[j].id # N_notifFile[k].owner)
    /\ N_dpc' = "sleep"
    /\ UNCHANGED << now, N_todoFile, N_fpc, N_allTasks, N_currentTasks,
                    N_completedTasks, N_nextText, N_deleted >>
    /\ UNCHANGED << varsF, varsS, varsV, varsP, varsW >>

\* a second passes; sleep_for(1 s) has returned by then
N_TickSec ==
    /\ now < N_MaxNow
    /\ now' = now + 1
    /\ N_dpc' = IF N_dpc = "sleep" /\ 1 >= SleepSecs THEN "poll" ELSE N_dpc
    /\ UNCHANGED << N_notifFile, N_todoFile, N_fpc, N_allTasks, N_currentTasks,
                    N_completedTasks, N_nextText, N_histUnch >>
    /\ UNCHANGED << varsF, varsS, varsV, varsP, varsW >>

InitN ==
    /\ N_notifFile = << >>
    /\ N_todoFile = << >>
    /\ N_fpc = "off"
    /\ N_allTasks = << >>
    /\ N_currentTasks = << >>
    /\ N_completedTasks = << >>
    /\ N_nextText = 1
    /\ N_dpc = "poll"
    /\ N_deleted = {}
    /\ N_firedGone = FALSE

(***************************************************************************)
(* Variant S: the SQLite program (src/unnamed/part_002, 915-1750) and its  *)
(* daemon (src/todo_daemon.cpp).  Every SQL statement is one step.  The    *)
(* columns task, category, updated_at and message are not tracked, so the  *)
(* handlers that only change them (edit, set category) have no action.     *)
(* The UI keeps no copy of the store; two instances of it may run on the   *)
(* same database.                                                          *)
(***************************************************************************)
S_Instances == {1, 2}
\* the quantities typed into setReminderOverlay, in seconds
S_Offsets == {0 - Epoch0, 1}
S_MaxNow == Epoch0 + MaxSecs

\* the ids that fetchTasks(completedFlag, "All") returns: "WHERE t.completed = ?"
\* (the join and the ORDER BY change the rows' number and order, not their ids)
S_FetchIds(completedFlag) == { t.id : t \in { u \in S_tasks : u.completed = completedFlag } }

\* fetchPendingNotifications: "WHERE triggered = 0 AND scheduled_time <= ?"
S_Pending(nowSec) == { n \in S_notifs : n.trig = 0 /\ n.st <= nowSec }

\* DBManager::fetchTasks, the rows of "tasks t LEFT JOIN (n1 JOIN n2 ON
\* n1.task_id = n2.task_id AND n1.scheduled_time = n2.min_time) n ON t.id =
\* n.task_id WHERE t.completed = ?", n2 being MIN(scheduled_time) of the rows with
\* triggered = 0 per task_id; notif 0 stands for the NULL columns
S_fetchTasksRows(tasks, notifs, completedFlag) ==
    LET n2 == {[task_id |-> tid,
                min_time |-> CHOOSE m \in {x.st : x \in {y \in notifs : y.task_id = tid /\ y.trig = 0}} :
                                \A x \in {y \in notifs : y.task_id = tid /\ y.trig = 0} : m <= x.st] :
               tid \in {y.task_id : y \in {z \in notifs : z.trig = 0}}}
        n == {n1 \in notifs : \E g \in n2 : n1.task_id = g.task_id /\ n1.st = g.min_time}
    IN UNION {IF \E x \in n : x.task_id = t.id
              THEN {[task |-> t.id, notif |-> x.id, scheduled_time |-> x.st,
                     triggered |-> x.trig] : x \in {y \in n : y.task_id = t.id}}
              ELSE {[task |-> t.id, notif |-> 0, scheduled_time |-> 0, triggered |-> 0]} :
              t \in {u \in tasks : u.completed = completedFlag}}

\* the rows of a result in rowid order
RECURSIVE S_ById(_)
S_ById(rows) ==
    IF rows = {} THEN << >>
    ELSE LET r == CHOOSE x \in rows : \A y \in rows : x.id <= y.id
         IN << r >> \o S_ById(rows \ {r})

\* the result of updateTaskText, updateTaskCategory, markTaskCompleted and
\* removeTask for an id: "return (rc == SQLITE_DONE)", and sqlite3_step of an UPDATE
\* or DELETE ends with SQLITE_DONE whether or not a row has that id
S_StepDone(tasks, id) == TRUE

S_histUnch == << S_firstDone, S_badFire >>
S_daemonUnch == << S_dpc, S_dNotifs >>

\* 'n': addTaskUI -> DBManager::addTask
S_AddTask ==
    /\ S_nextTaskId <= MaxTasks
    /\ S_tasks' = S_tasks \cup
         {[id |-> S_nextTaskId, created_at |-> now, completed |-> 0, completed_at |-> 0]}
    /\ S_nextTaskId' = S_nextTaskId + 1
    /\ UNCHANGED << now, S_notifs, S_nextNotifId, S_cSel, S_daemonUnch, S_histUnch >>
    /\ UNCHANGED << varsF, varsN, varsV, varsP, varsW >>

\* 'c', first statement of completeTaskUI: fetchTasks(0, ...), whatever the view
S_CompleteFetch(p, id) ==
    /\ S_cSel[p] = 0
    /\ id \in S_FetchIds(0)
    /\ S_cSel' = [S_cSel EXCEPT ![p] = id]
    /\ UNCHANGED << now, S_tasks, S_notifs, S_nextTaskId, S_nextNotifId, S_daemonUnch,
                    S_histUnch >>
    /\ UNCHANGED << varsF, varsN, varsV, varsP, varsW >>

\* 'c', second statement: DBManager::markTaskCompleted,
\* "UPDATE tasks SET completed = 1, completed_at = ?, updated_at = ? WHERE id = ?"
S_CompleteMark(p) ==
    /\ S_cSel[p] # 0
    /\ S_tasks' = { IF t.id = S_cSel[p]
                    THEN [t EXCEPT !.completed = 1, !.completed_at = now]
                    ELSE t : t \in S_tasks }
    /\ S_firstDone' =
         IF S_firstDone[S_cSel[p]] = 0 /\ (\E t \in S_tasks : t.id = S_cSel[p])
         THEN [S_firstDone EXCEPT ![S_cSel[p]] = now]
         ELSE S_firstDone
    /\ S_cSel' = [S_cSel EXCEPT ![p] = 0]
    /\ UNCHANGED << now, S_notifs, S_nextTaskId, S_nextNotifId, S_daemonUnch, S_badFire >>
    /\ UNCHANGED << varsF, varsN, varsV, varsP, varsW >>

\* 'd': deleteTaskUI -> DBManager::removeTask; ON DELETE CASCADE removes the
\* task's notifications
S_Delete(viewMode, id) ==
    /\ id \in S_FetchIds(viewMode)
    /\ S_tasks' = { t \in S_tasks : t.id # id }
    /\ S_notifs' = { n \in S_notifs : n.task_id # id }
    /\ UNCHANGED << now, S_nextTaskId, S_nextNotifId, S_cSel, S_daemonUnch, S_histUnch >>
    /\ UNCHANGED << varsF, varsN, varsV, varsP, varsW >>

\* 'r': setReminderOverlay -> DBManager::addReminderToTask on a row of fetchTasks(0, ...)
S_SetReminder(id, offsetSeconds) ==
    /\ S_nextNotifId <= MaxNotifs
    /\ id \in S_FetchIds(0)
    /\ S_notifs' = S_notifs \cup
         {[id |-> S_nextNotifId, task_id |-> id, st |-> now + offsetSeconds, trig |-> 0]}
    /\ S_nextNotifId' = S_nextNotifId + 1
    /\ UNCHANGED << now, S_tasks, S_nextTaskId, S_cSel, S_daemonUnch, S_histUnch >>
    /\ UNCHANGED << varsF, varsN, varsV, varsP, varsW >>

\* daemon: fetchPendingNotifications
S_DaemonFetch ==
    /\ S_dpc = "fetch"
    /\ S_dpc' = "fire"
    /\ S_dNotifs' = S_ById(S_Pending(now))
    /\ UNCHANGED << now, S_tasks, S_notifs, S_nextTaskId, S_nextNotifId, S_cSel, S_histUnch >>
    /\ UNCHANGED << varsF, varsN, varsV, varsP, varsW >>

\* daemon: one turn of "for (auto &n : notifs)": notify-send, then
\* updateNotificationTriggered(n.id), whose result main ignores
S_DaemonFire ==
    /\ S_dpc = "fire"
    /\ S_dNotifs # << >>
    /\ LET n == Head(S_dNotifs)
       IN /\ S_badFire' = (S_badFire \/ n.st = 0 \/ n.st > now \/ n.trig = 1)
          /\ S_notifs' = { IF m.id = n.id THEN [m EXCEPT !.trig = 1] ELSE m : m \in S_notifs }
    /\ S_dNotifs' = Tail(S_dNotifs)
    /\ UNCHANGED << now, S_tasks, S_nextTaskId, S_nextNotifId, S_cSel, S_dpc, S_firstDone >>
    /\ UNCHANGED << varsF, varsN, varsV, varsP, varsW >>

\* daemon: the list is done, sleep_for(1 s)
S_DaemonSleep ==
    /\ S_dpc = "fire"
    /\ S_dNotifs = << >>
    /\ S_dpc' = "sleep"
    /\ UNCHANGED << now, S_tasks, S_notifs, S_nextTaskId, S_nextNotifId, S_cSel, S_dNotifs,
                    S_histUnch >>
    /\ UNCHANGED << varsF, varsN, varsV, varsP, varsW >>

\* a second passes; sleep_for(1 s) has returned by then
S_TickSec ==
    /\ now < S_MaxNow
    /\ now' = now + 1
    /\ S_dpc' = IF S_dpc = "sleep" /\ 1 >= SleepSecs THEN "fetch" ELSE S_dpc
    /\ UNCHANGED << S_tasks, S_notifs, S_nextTaskId, S_nextNotifId, S_cSel, S_dNotifs,
                    S_histUnch >>
    /\ UNCHANGED << varsF, varsN, varsV, varsP, varsW >>

InitS ==
    /\ S_tasks = {}
    /\ S_notifs = {}
    /\ S_nextTaskId = 1
    /\ S_nextNotifId = 1
    /\ S_cSel = [p \in S_Instances |-> 0]
    /\ S_dpc = "fetch"
    /\ S_dNotifs = << >>
    /\ S_firstDone = [id \in 1..MaxTasks |-> 0]
    /\ S_badFire = FALSE

(***************************************************************************)
(* The specifications.                                                     *)
(***************************************************************************)
(***************************************************************************)
(* The list view: selection, category filter, view mode and scrolling of   *)
(* src/todo.cpp (343-439, 740-759, 855-923, 1039-1065) and of              *)
(* src/unnamed/part_002 (1104-1155, 1266-1384, 1479-1556, 1651-1738).      *)
(* V_build says which of the two programs runs.  The store is an input:    *)
(* a sequence of tasks in creation order, which is the order of            *)
(* currentTasks/completedTasks after filterTasks and the ORDER BY          *)
(* created_at of fetchTasks (rows of one second in rowid order).  A task   *)
(* is [id, category, lines, completed]; reminders are not part of the      *)
(* view's store, so fetchTasks' join yields one row per task.  The only    *)
(* change of the store here is 'd'; add, complete and the stale match by   *)
(* creation second are in SpecN and SpecS.  Every key handler is one       *)
(* step that ends with the redraw the code makes before it reads the next  *)
(* key.  selectedIndex and the scroll offsets are 0-based as in the code,  *)
(* sequences are 1-based: row k of a vector v is v[k + 1].                 *)
(***************************************************************************)
V_Builds == {"todo.cpp", "part_002"}
Categories == {"", "home", "work"}

\* the task contents the inputs are drawn from
V_Shapes == [category : Categories, lines : 1..MaxLines, completed : BOOLEAN]

\* the tasks numbered by their creation order
V_WithIds(s) ==
    [i \in 1..Len(s) |-> [id |-> i, category |-> s[i].category,
                          lines |-> s[i].lines, completed |-> s[i].completed]]

\* every store of up to MaxViewTasks tasks
V_ShortStores == UNION {[1..n -> V_Shapes] : n \in 0..MaxViewTasks}

\* stores longer than a page: LongTasks - 1 or LongTasks current tasks of one
\* line, every second one with category "work"
V_LongStores ==
    {[i \in 1..n |-> [category |-> IF i % 2 = 0 THEN "work" ELSE "", lines |-> 1,
                      completed |-> FALSE]] :
        n \in (LongTasks - 1)..LongTasks}

V_Stores == {V_WithIds(s) : s \in V_ShortStores \cup V_LongStores}

\* todo.cpp: temp/vec, "(viewMode == 0) ? currentTasks : completedTasks"
N_vec(store, viewMode) ==
    LET InView(t) == t.completed = (viewMode = 1)
    IN SelectSeq(store, InView)

\* todo.cpp: the loop that builds filteredIndices (0-based indices into temp)
N_filteredIndices(temp, filterCategory) ==
    LET Match(i) == filterCategory = "All" \/ temp[i + 1].category = filterCategory
    IN SelectSeq([i \in 1..Len(temp) |-> i - 1], Match)

\* todo.cpp: the filtered list, temp[filteredIndices[idx]] for idx = 0, 1, ...
N_filtered(store, viewMode, filterCategory) ==
    LET temp == N_vec(store, viewMode)
        fi == N_filteredIndices(temp, filterCategory)
    IN [k \in 1..Len(fi) |-> temp[fi[k] + 1]]

\* a fetch that ignores the category
S_fetchTasksAnyCategory(store, completedFlag, filterCategory) ==
    LET Row(t) == t.completed = (completedFlag = 1)
    IN SelectSeq(store, Row)

\* part_002: DBManager::fetchTasks, "WHERE t.completed = ?", and
\* " AND t.category = ?" unless the filter is "All", "ORDER BY t.created_at ASC"
S_fetchTasks(store, completedFlag, filterCategory) ==
    LET Row(t) == /\ t.completed = (completedFlag = 1)
                  /\ (filterCategory # "All" => t.category = filterCategory)
    IN SelectSeq(store, Row)

\* the filtered list of the active view, as the running program derives it
V_Filtered(store, viewMode, filterCategory) ==
    IF V_build = "todo.cpp" THEN N_filtered(store, viewMode, filterCategory)
    ELSE S_fetchTasks(store, viewMode, filterCategory)

\* a redraw that leaves selectedIndex as it is
ClampNone(sel, size) == sel

\* drawListUI 378-388, drawListUIFull 1285-1292: "Clamp selectedIndex"
ClampSelected(sel, size) ==
    IF size = 0 THEN 0
    ELSE LET s1 == IF sel >= size THEN size - 1 ELSE sel
         IN IF s1 < 0 THEN 0 ELSE s1

\* display lines of the rows a, ..., b - 1 of list
RECURSIVE LinesFrom(_, _, _)
LinesFrom(list, a, b) ==
    IF a >= b THEN 0 ELSE list[a + 1].lines + LinesFrom(list, a + 1, b)

\* the drawing loop of both programs: rows from the scroll offset on, each at
\* currentY = 1 + the lines above it, until currentY >= getmaxy(listWin) - 1
Rendered(list, scrollOffset, visibleLines) ==
    {idx \in scrollOffset..(Len(list) - 1) :
        1 + LinesFrom(list, scrollOffset, idx) < visibleLines + 1}

\* todo.cpp drawListUI 392-395
N_scrollOffset(sel, visibleLines) ==
    IF sel >= visibleLines THEN sel - (visibleLines - 1) ELSE 0

\* part_002 drawListUIFull 1295-1308: the first row i with
\* cum + lines >= visibleLines, taken if selectedIndex >= i
S_scrollOffset(list, sel, visibleLines) ==
    LET full == {i \in 0..(Len(list) - 1) :
                    LinesFrom(list, 0, i) + list[i + 1].lines >= visibleLines}
    IN IF full = {} THEN 0
       ELSE LET i == CHOOSE j \in full : \A k \in full : j <= k
            IN IF sel >= i THEN i ELSE 0

\* part_002 computeScrollOffsetForSelected: the inner while loop
RECURSIVE S_adjustOffset(_, _, _, _, _)
S_adjustOffset(list, sel, visibleLines, offset, cumPlusLines) ==
    IF offset < sel /\ cumPlusLines > visibleLines
    THEN S_adjustOffset(list, sel, visibleLines, offset + 1,
                        cumPlusLines - list[offset + 1].lines)
    ELSE offset

\* part_002 computeScrollOffsetForSelected: the for loop from row i on
RECURSIVE S_offsetLoop(_, _, _, _, _, _)
S_offsetLoop(list, sel, visibleLines, i, offset, cum) ==
    IF i >= Len(list) THEN offset
    ELSE LET lines == list[i + 1].lines
         IN IF i = sel
            THEN S_adjustOffset(list, sel, visibleLines, offset, cum + lines)
            ELSE IF cum + lines >= visibleLines
                 THEN S_offsetLoop(list, sel, visibleLines, i + 1, i + 1, 0)
                 ELSE S_offsetLoop(list, sel, visibleLines, i + 1, offset, cum + lines)

S_computeScrollOffsetForSelected(list, sel, visibleLines) ==
    S_offsetLoop(list, sel, visibleLines, 0, 0, 0)

\* todo.cpp drawListUI: the clamped selection, the scroll offset, the rows drawn
N_drawListUI(store, viewMode, filterCategory, sel, visibleLines) ==
    LET rows == N_filtered(store, viewMode, filterCategory)
        s == ClampSelected(sel, Len(rows))
        off == N_scrollOffset(s, visibleLines)
    IN [sel |-> s, off |-> off, drawn |-> Rendered(rows, off, visibleLines),
        gTasks |-> << >>]

\* part_002 drawListUIFull: gTasks is fetched again, then the same
S_drawListUIFull(store, viewMode, filterCategory, sel, visibleLines) ==
    LET g == S_fetchTasks(store, viewMode, filterCategory)
        s == ClampSelected(sel, Len(g))
        off == S_scrollOffset(g, s, visibleLines)
    IN [sel |-> s, off |-> off, drawn |-> Rendered(g, off, visibleLines),
        gTasks |-> g]

\* the redraw that ends a handler of the running program
V_Redraw(store, viewMode, filterCategory, sel) ==
    LET r == IF V_build = "todo.cpp"
             THEN N_drawListUI(store, viewMode, filterCategory, sel, V_visibleLines)
             ELSE S_drawListUIFull(store, viewMode, filterCategory, sel, V_visibleLines)
    IN /\ V_selectedIndex' = r.sel
       /\ V_scrollOffset' = r.off
       /\ V_drawn' = r.drawn
       /\ V_gTasks' = r.gTasks
       /\ V_preSel' = sel

V_others == << now, varsF, varsN, varsS, varsP, varsW >>
V_inputs == << V_build, V_visibleLines, V_sKey, V_reminded >>

\* the store without the task id: vector::erase, DBManager::removeTask
V_Remove(store, id) ==
    LET Other(t) == t.id # id
    IN SelectSeq(store, Other)

\* KEY_PPAGE of both programs
PageUp(sel) ==
    IF sel > PageStep THEN sel - PageStep ELSE 0

\* todo.cpp KEY_NPAGE, limit = filteredIndices.size()
N_PageDown(sel, limit) ==
    IF sel + PageStep < limit THEN sel + PageStep
    ELSE IF limit > 0 THEN limit - 1 ELSE 0

\* part_002 KEY_NPAGE, size = gTasks.size()
S_PageDown(sel, size) ==
    IF sel + PageStep < size THEN sel + PageStep ELSE size - 1

\* todo.cpp listCategoriesOverlay: "All" and the categories of the viewed vector
N_catList(store, viewMode) ==
    LET vec == N_vec(store, viewMode)
    IN {"All"} \cup ({vec[i].category : i \in 1..Len(vec)} \ {""})

\* part_002 listCategoriesOverlay: "All" and SELECT DISTINCT category FROM tasks
S_catList(store) ==
    {"All"} \cup ({store[i].category : i \in 1..Len(store)} \ {""})

V_keyUnch == << V_inputs, V_store, V_viewMode, V_activeFilterCategory, V_nDeleted >>

(***************************************************************************)
(* The key handlers of src/todo.cpp (main, 855-1065), each with the        *)
(* drawUI that follows it when needRedraw is set.                          *)
(***************************************************************************)
N_KeyUp ==
    /\ V_build = "todo.cpp"
    /\ V_selectedIndex > 0
    /\ V_Redraw(V_store, V_viewMode, V_activeFilterCategory, V_selectedIndex - 1)
    /\ UNCHANGED << V_keyUnch, V_others >>

N_KeyDown ==
    /\ V_build = "todo.cpp"
    /\ LET fi == N_filteredIndices(N_vec(V_store, V_viewMode), V_activeFilterCategory)
       IN V_selectedIndex < Len(fi) - 1
    /\ V_Redraw(V_store, V_viewMode, V_activeFilterCategory, V_selectedIndex + 1)
    /\ UNCHANGED << V_keyUnch, V_others >>

N_KeyHome ==
    /\ V_build = "todo.cpp"
    /\ V_selectedIndex # 0
    /\ V_Redraw(V_store, V_viewMode, V_activeFilterCategory, 0)
    /\ UNCHANGED << V_keyUnch, V_others >>

N_KeyEnd ==
    /\ V_build = "todo.cpp"
    /\ LET fi == N_filteredIndices(N_vec(V_store, V_viewMode), V_activeFilterCategory)
       IN /\ fi # << >>
          /\ V_Redraw(V_store, V_viewMode, V_activeFilterCategory, Len(fi) - 1)
    /\ UNCHANGED << V_keyUnch, V_others >>

N_KeyPPage ==
    /\ V_build = "todo.cpp"
    /\ V_Redraw(V_store, V_viewMode, V_activeFilterCategory, PageUp(V_selectedIndex))
    /\ UNCHANGED << V_keyUnch, V_others >>

N_KeyNPage ==
    /\ V_build = "todo.cpp"
    /\ LET fi == N_filteredIndices(N_vec(V_store, V_viewMode), V_activeFilterCategory)
       IN V_Redraw(V_store, V_viewMode, V_activeFilterCategory,
                   N_PageDown(V_selectedIndex, Len(fi)))
    /\ UNCHANGED << V_keyUnch, V_others >>

\* ':' gotoItem(itemNum): the position in the unfiltered vector, then its place in
\* filteredIndices; nothing if it has none
N_gotoItem(itemNum) ==
    /\ V_build = "todo.cpp"
    /\ LET vec == N_vec(V_store, V_viewMode)
           fi == N_filteredIndices(vec, V_activeFilterCategory)
           hit == {k \in 1..Len(fi) : fi[k] = itemNum - 1}
           sel == IF itemNum - 1 < 0 \/ itemNum - 1 >= Len(vec) \/ hit = {}
                  THEN V_selectedIndex
                  ELSE (CHOOSE k \in hit : TRUE) - 1
       IN V_Redraw(V_store, V_viewMode, V_activeFilterCategory, sel)
    /\ UNCHANGED << V_keyUnch, V_others >>

\* a '#' that also moves the selection to the first row
N_listCategoriesOverlayReset(cat) ==
    /\ V_build = "todo.cpp"
    /\ cat \in N_catList(V_store, V_viewMode)
    /\ V_activeFilterCategory' = cat
    /\ V_Redraw(V_store, V_viewMode, cat, 0)
    /\ UNCHANGED << V_inputs, V_store, V_viewMode, V_nDeleted, V_others >>

\* '#' listCategoriesOverlay, Enter on cat
N_listCategoriesOverlay(cat) ==
    /\ V_build = "todo.cpp"
    /\ cat \in N_catList(V_store, V_viewMode)
    /\ V_activeFilterCategory' = cat
    /\ V_Redraw(V_store, V_viewMode, cat, V_selectedIndex)
    /\ UNCHANGED << V_inputs, V_store, V_viewMode, V_nDeleted, V_others >>

\* a tab that also clears the filter
N_SwitchViewClearFilter ==
    /\ V_build = "todo.cpp"
    /\ V_viewMode' = 1 - V_viewMode
    /\ V_activeFilterCategory' = "All"
    /\ V_Redraw(V_store, 1 - V_viewMode, "All", 0)
    /\ UNCHANGED << V_inputs, V_store, V_nDeleted, V_others >>

\* '\t': viewMode = 1 - viewMode; selectedIndex = 0
N_SwitchView ==
    /\ V_build = "todo.cpp"
    /\ V_viewMode' = 1 - V_viewMode
    /\ V_Redraw(V_store, 1 - V_viewMode, V_activeFilterCategory, 0)
    /\ UNCHANGED << V_inputs, V_store, V_activeFilterCategory, V_nDeleted, V_others >>

\* 'd' deleteTask, as the displayed vector sees it: vec.erase(begin() + realIndex)
N_deleteTask ==
    /\ V_build = "todo.cpp"
    /\ V_nDeleted < MaxDeletes
    /\ LET rows == N_filtered(V_store, V_viewMode, V_activeFilterCategory)
       IN /\ V_selectedIndex < Len(rows)
          /\ LET store2 == V_Remove(V_store, rows[V_selectedIndex + 1].id)
             IN /\ V_store' = store2
                /\ V_Redraw(store2, V_viewMode, V_activeFilterCategory, V_selectedIndex)
    /\ V_nDeleted' = V_nDeleted + 1
    /\ UNCHANGED << V_inputs, V_viewMode, V_activeFilterCategory, V_others >>

(***************************************************************************)
(* The key handlers of src/unnamed/part_002 (main, 1651-1738).             *)
(***************************************************************************)
\* updateSelectionDisplay: a full redraw if the computed offset differs from
\* gScrollOffset, else the two rows are repainted where they are
S_updateSelectionDisplay(newSel) ==
    IF S_computeScrollOffsetForSelected(V_gTasks, newSel, V_visibleLines) # V_scrollOffset
    THEN V_Redraw(V_store, V_viewMode, V_activeFilterCategory, newSel)
    ELSE /\ V_selectedIndex' = newSel
         /\ V_preSel' = newSel
         /\ UNCHANGED << V_scrollOffset, V_drawn, V_gTasks >>

S_KeyUp ==
    /\ V_build = "part_002"
    /\ V_selectedIndex > 0
    /\ S_updateSelectionDisplay(V_selectedIndex - 1)
    /\ UNCHANGED << V_keyUnch, V_others >>

\* a KEY_DOWN without its test against gTasks.size()
S_KeyDownUnguarded ==
    /\ V_build = "part_002"
    /\ S_updateSelectionDisplay(V_selectedIndex + 1)
    /\ UNCHANGED << V_keyUnch, V_others >>

S_KeyDown ==
    /\ V_build = "part_002"
    /\ V_selectedIndex < Len(V_gTasks) - 1
    /\ S_updateSelectionDisplay(V_selectedIndex + 1)
    /\ UNCHANGED << V_keyUnch, V_others >>

S_KeyHome ==
    /\ V_build = "part_002"
    /\ V_selectedIndex # 0
    /\ V_Redraw(V_store, V_viewMode, V_activeFilterCategory, 0)
    /\ UNCHANGED << V_keyUnch, V_others >>

S_KeyEnd ==
    /\ V_build = "part_002"
    /\ V_gTasks # << >>
    /\ V_Redraw(V_store, V_viewMode, V_activeFilterCategory, Len(V_gTasks) - 1)
    /\ UNCHANGED << V_keyUnch, V_others >>

S_KeyPPage ==
    /\ V_build = "part_002"
    /\ V_Redraw(V_store, V_viewMode, V_activeFilterCategory, PageUp(V_selectedIndex))
    /\ UNCHANGED << V_keyUnch, V_others >>

S_KeyNPage ==
    /\ V_build = "part_002"
    /\ V_Redraw(V_store, V_viewMode, V_activeFilterCategory,
                S_PageDown(V_selectedIndex, Len(V_gTasks)))
    /\ UNCHANGED << V_keyUnch, V_others >>

\* ':' gotoItem(itemNum): the position in the fetched, filtered list
S_gotoItem(itemNum) ==
    /\ V_build = "part_002"
    /\ LET tasks == S_fetchTasks(V_store, V_viewMode, V_activeFilterCategory)
       IN /\ ~(itemNum < 1 \/ itemNum > Len(tasks))
          /\ V_Redraw(V_store, V_viewMode, V_activeFilterCategory, itemNum - 1)
    /\ UNCHANGED << V_keyUnch, V_others >>

\* '#' listCategoriesOverlay, Enter on cat, then drawListUIFull
S_listCategoriesOverlay(cat) ==
    /\ V_build = "part_002"
    /\ cat \in S_catList(V_store)
    /\ V_activeFilterCategory' = cat
    /\ V_Redraw(V_store, V_viewMode, cat, V_selectedIndex)
    /\ UNCHANGED << V_inputs, V_store, V_viewMode, V_nDeleted, V_others >>

\* '\t': viewMode = 1 - viewMode; selectedIndex = 0
S_SwitchView ==
    /\ V_build = "part_002"
    /\ V_viewMode' = 1 - V_viewMode
    /\ V_Redraw(V_store, 1 - V_viewMode, V_activeFilterCategory, 0)
    /\ UNCHANGED << V_inputs, V_store, V_activeFilterCategory, V_nDeleted, V_others >>

\* 'd' deleteTaskUI
S_deleteTaskUI ==
    /\ V_build = "part_002"
    /\ V_nDeleted < MaxDeletes
    /\ LET tasks == S_fetchTasks(V_store, V_viewMode, V_activeFilterCategory)
       IN /\ ~(tasks = << >> \/ V_selectedIndex >= Len(tasks))
          /\ LET store2 == V_Remove(V_store, tasks[V_selectedIndex + 1].id)
             IN /\ V_store' = store2
                /\ V_Redraw(store2, V_viewMode, V_activeFilterCategory, V_selectedIndex)
    /\ V_nDeleted' = V_nDeleted + 1
    /\ UNCHANGED << V_inputs, V_viewMode, V_activeFilterCategory, V_others >>

\* the store with the category of task id set to cat
V_SetCategory(store, id, cat) ==
    [i \in 1..Len(store) |->
        IF store[i].id = id THEN [store[i] EXCEPT !.category = cat] ELSE store[i]]

\* addCategoryOverlay: "if (!newCat.empty())" the category becomes newCat
CategoryAfter(existingCat, newCat) ==
    IF newCat # "" THEN newCat ELSE existingCat

\* todo.cpp 's': addCategoryOverlay on the selected row, the copy to allTasks,
\* then drawUI
N_addCategoryOverlay(newCat) ==
    /\ V_build = "todo.cpp"
    /\ LET f == N_filtered(V_store, V_viewMode, V_activeFilterCategory)
       IN /\ f # << >> /\ V_selectedIndex < Len(f)
          /\ LET t == f[V_selectedIndex + 1]
                 store2 == V_SetCategory(V_store, t.id, CategoryAfter(t.category, newCat))
             IN /\ V_store' = store2
                /\ V_sKey' = [id |-> t.id, cat |-> newCat]
                /\ V_Redraw(store2, V_viewMode, V_activeFilterCategory, V_selectedIndex)
    /\ UNCHANGED << V_build, V_visibleLines, V_reminded, V_viewMode,
                    V_activeFilterCategory, V_nDeleted, V_others >>

\* part_002 's': addCategoryOverlay, updateTaskCategory, then drawListUIFull
S_addCategoryOverlay(newCat) ==
    /\ V_build = "part_002"
    /\ LET tasks == S_fetchTasks(V_store, V_viewMode, V_activeFilterCategory)
       IN /\ tasks # << >> /\ V_selectedIndex < Len(tasks)
          /\ LET t == tasks[V_selectedIndex + 1]
                 store2 == V_SetCategory(V_store, t.id, CategoryAfter(t.category, newCat))
             IN /\ V_store' = store2
                /\ V_sKey' = [id |-> t.id, cat |-> newCat]
                /\ V_Redraw(store2, V_viewMode, V_activeFilterCategory, V_selectedIndex)
    /\ UNCHANGED << V_build, V_visibleLines, V_reminded, V_viewMode,
                    V_activeFilterCategory, V_nDeleted, V_others >>

\* todo.cpp 'c': completeTask, "if (viewMode != 0) return;", then drawUI
N_completeTask ==
    /\ V_build = "todo.cpp"
    /\ V_viewMode = 0
    /\ LET f == N_filtered(V_store, 0, V_activeFilterCategory)
       IN /\ f # << >> /\ V_selectedIndex < Len(f)
          /\ LET id == f[V_selectedIndex + 1].id
                 store2 == [i \in 1..Len(V_store) |->
                              IF V_store[i].id = id
                              THEN [V_store[i] EXCEPT !.completed = TRUE]
                              ELSE V_store[i]]
             IN /\ V_store' = store2
                /\ V_Redraw(store2, V_viewMode, V_activeFilterCategory, V_selectedIndex)
    /\ UNCHANGED << V_inputs, V_viewMode, V_activeFilterCategory, V_nDeleted, V_others >>

\* part_002 'c': completeTaskUI, fetchTasks(0, activeFilterCategory) in either
\* view, markTaskCompleted, then drawListUIFull
S_completeTaskUI ==
    /\ V_build = "part_002"
    /\ LET tasks == S_fetchTasks(V_store, 0, V_activeFilterCategory)
       IN /\ ~(tasks = << >> \/ V_selectedIndex >= Len(tasks))
          /\ LET id == tasks[V_selectedIndex + 1].id
                 store2 == [i \in 1..Len(V_store) |->
                              IF V_store[i].id = id
                              THEN [V_store[i] EXCEPT !.completed = TRUE]
                              ELSE V_store[i]]
             IN /\ V_store' = store2
                /\ V_Redraw(store2, V_viewMode, V_activeFilterCategory, V_selectedIndex)
    /\ UNCHANGED << V_inputs, V_viewMode, V_activeFilterCategory, V_nDeleted, V_others >>

\* part_002 'r': setReminderOverlay, fetchTasks(0, activeFilterCategory) in either
\* view, addReminderToTask, then drawListUIFull
S_setReminderOverlay ==
    /\ V_build = "part_002"
    /\ LET tasks == S_fetchTasks(V_store, 0, V_activeFilterCategory)
       IN V_reminded' = IF tasks # << >> /\ V_selectedIndex < Len(tasks)
                        THEN V_reminded \cup {tasks[V_selectedIndex + 1].id}
                        ELSE V_reminded
    /\ V_Redraw(V_store, V_viewMode, V_activeFilterCategory, V_selectedIndex)
    /\ UNCHANGED << V_build, V_visibleLines, V_sKey, V_store, V_viewMode,
                    V_activeFilterCategory, V_nDeleted, V_others >>

\* the state after main's first drawUI, for a program, a store and a window height
InitV(builds, stores, heights) ==
    /\ V_build \in builds
    /\ V_store \in stores
    /\ V_visibleLines \in heights
    /\ V_viewMode = 0
    /\ V_activeFilterCategory = "All"
    /\ V_nDeleted = 0
    /\ V_sKey = [id |-> 0, cat |-> ""]
    /\ V_reminded = {}
    /\ V_preSel = 0
    /\ LET r == IF V_build = "todo.cpp"
                THEN N_drawListUI(V_store, 0, "All", 0, V_visibleLines)
                ELSE S_drawListUIFull(V_store, 0, "All", 0, V_visibleLines)
       IN /\ V_selectedIndex = r.sel
          /\ V_scrollOffset = r.off
          /\ V_drawn = r.drawn
          /\ V_gTasks = r.gTasks

vars == << now, varsF, varsN, varsS, varsV, varsP, varsW >>

(***************************************************************************)
(* Variant P: the text file of src/unnamed/part_001                        *)
(***************************************************************************)
P_MaxTasks == 1

Digits == << "0", "1", "2", "3", "4", "5", "6", "7", "8", "9" >>
IsDigit(c) == \E d \in 1..Len(Digits) : Digits[d] = c
DigitVal(c) == (CHOOSE d \in 1..Len(Digits) : Digits[d] = c) - 1

\* std::to_string, operator<< of a non-negative long
RECURSIVE to_string(_)
to_string(n) ==
    IF n < Len(Digits) THEN << Digits[n + 1] >>
    ELSE Append(to_string(n \div Len(Digits)), Digits[(n % Len(Digits)) + 1])

\* std::stol throws std::invalid_argument when the string starts with no digit
NoConversion == 0 - 1

RECURSIVE LeadingValue(_, _)
LeadingValue(str, acc) ==
    IF str = << >> \/ ~IsDigit(Head(str)) THEN acc
    ELSE LeadingValue(Tail(str), acc * Len(Digits) + DigitVal(Head(str)))

\* std::stol: the value of the leading digits
Stol(str) ==
    IF str = << >> \/ ~IsDigit(Head(str)) THEN NoConversion ELSE LeadingValue(str, 0)

\* the chunks of line between the '|' characters
RECURSIVE Parts(_, _)
Parts(line, chunk) ==
    IF line = << >> THEN << chunk >>
    ELSE IF Head(line) = "|" THEN << chunk >> \o Parts(Tail(line), << >>)
    ELSE Parts(Tail(line), Append(chunk, Head(line)))

extendedSplitTaskLine(line) ==
    LET parts == Parts(line, << >>)
        Field(k, default) == IF Len(parts) >= k THEN parts[k] ELSE default
    IN [task |-> Field(1, << >>), date |-> Field(2, << >>), cat |-> Field(3, << >>),
        re |-> Field(4, << "0" >>), ri |-> Field(5, << "0" >>)]

extendedJoinTaskLine(t) ==
    t.task \o << "|" >> \o t.date \o << "|" >> \o t.cat \o << "|" >> \o t.re
           \o << "|" >> \o t.ri

\* loadTasks: nothing when the file cannot be opened; empty lines and lines with
\* an empty first field are left out
loadTasks(file, opened) ==
    LET NotEmpty(line) == line # << >>
        content == SelectSeq(file, NotEmpty)
        HasText(t) == t.task # << >>
    IN IF ~opened THEN << >>
       ELSE SelectSeq([i \in 1..Len(content) |-> extendedSplitTaskLine(content[i])],
                      HasText)

\* saveTasks: the file is left as it is when it cannot be opened for writing
saveTasks(file, tasks, opened) ==
    IF ~opened THEN file
    ELSE [i \in 1..Len(tasks) |-> extendedJoinTaskLine(tasks[i])]

\* what the user can type as a task text and as a category
P_Texts == { << "a" >>, << "b", "|" >> }
P_Categories == { << >>, << "7" >> }
\* std::put_time(&localTm, "%Y-%m-%d")
P_Date == << "2", "0", "2", "6", "-", "1", "1", "-", "0", "5" >>

\* main 880: loadTasks(currentFile, ...)
P_Start(opened) ==
    /\ P_fpc = "off"
    /\ P_fpc' = "ui"
    /\ P_tasks' = loadTasks(P_file, opened)
    /\ UNCHANGED << now, P_file, P_daemon, P_notified >>
    /\ UNCHANGED << varsF, varsN, varsS, varsV, varsW >>

\* 'n': addTaskOverlay with its category, reminder and frequency overlays
P_AddTask(text, cat, hours, freq) ==
    /\ P_fpc = "ui"
    /\ Len(P_tasks) < P_MaxTasks
    /\ P_tasks' = Append(P_tasks,
                         [task |-> text, date |-> P_Date, cat |-> cat,
                          re |-> to_string(ReminderEpoch(hours, now)),
                          ri |-> to_string(OverdueFreq(freq))])
    /\ UNCHANGED << now, P_file, P_fpc, P_daemon, P_notified >>
    /\ UNCHANGED << varsF, varsN, varsS, varsV, varsW >>

\* 'q': saveTasks(currentFile, ...) and exit
P_Quit(opened) ==
    /\ P_fpc = "ui"
    /\ P_fpc' = "off"
    /\ P_file' = saveTasks(P_file, P_tasks, opened)
    /\ P_tasks' = << >>
    /\ UNCHANGED << now, P_daemon, P_notified >>
    /\ UNCHANGED << varsF, varsN, varsS, varsV, varsW >>

\* the statuses system() returns: 0, or the notifier failed
P_SystemResults == {0, 1}

\* a loop that advances the reminder only when the notifier succeeded
P_AdvanceIfNotified(t, epoch, freqH, rc) ==
    IF rc # 0 THEN t
    ELSE [t EXCEPT !.re = IF freqH > 0 THEN to_string(epoch + freqH * HourSecs)
                          ELSE << "0" >>]

\* runDaemonLoop step 3 (C): the task after "system(cmd.c_str());", whose
\* result rc is discarded
P_Advance(t, epoch, freqH, rc) ==
    [t EXCEPT !.re = IF freqH > 0 THEN to_string(epoch + freqH * HourSecs)
                     ELSE << "0" >>]

\* runDaemonLoop step 3 from task i on: [dead, tasks, sent]; dead when std::stol
\* threw, which nothing catches; rc is what system() returns in this cycle
RECURSIVE P_CheckFrom(_, _, _, _, _)
P_CheckFrom(tasks, i, sent, nowSec, rc) ==
    IF i > Len(tasks) THEN [dead |-> FALSE, tasks |-> tasks, sent |-> sent]
    ELSE LET epoch == Stol(tasks[i].re)
             freqH == Stol(tasks[i].ri)
             sent2 == sent \cup {[body |-> tasks[i].task, rc |-> rc]}
         IN IF epoch = NoConversion THEN [dead |-> TRUE, tasks |-> tasks, sent |-> sent]
            ELSE IF ~F_Due(epoch, nowSec) THEN P_CheckFrom(tasks, i + 1, sent, nowSec, rc)
            ELSE IF freqH = NoConversion
                 THEN [dead |-> TRUE, tasks |-> tasks, sent |-> sent2]
            ELSE P_CheckFrom([tasks EXCEPT ![i] = P_Advance(tasks[i], epoch, freqH, rc)],
                             i + 1, sent2, nowSec, rc)

\* one iteration of runDaemonLoop: load, check, save
P_DaemonCycle(loadOpened, saveOpened, rc) ==
    /\ P_daemon = "run"
    /\ LET r == P_CheckFrom(loadTasks(P_file, loadOpened), 1, P_notified, now, rc)
       IN /\ P_notified' = r.sent
          /\ P_daemon' = IF r.dead THEN "dead" ELSE "run"
          /\ P_file' = IF r.dead THEN P_file ELSE saveTasks(P_file, r.tasks, saveOpened)
    /\ UNCHANGED << now, P_fpc, P_tasks >>
    /\ UNCHANGED << varsF, varsN, varsS, varsV, varsW >>

InitP ==
    /\ P_file = << >>
    /\ P_fpc = "off"
    /\ P_tasks = << >>
    /\ P_daemon = "run"
    /\ P_notified = {}

(***************************************************************************)
(* Variant W: countWrappedLines and drawWrappedText of src/unnamed/part_002*)
(***************************************************************************)
W_MaxLen == 4
W_MaxWidth == 3
\* lineCount is followed up to this value
W_MaxCount == 6

W_Texts == UNION {[1..n -> {"a", " "}] : n \in 0..W_MaxLen}

\* std::isspace(text[i]), i counted from 0
IsSpaceAt(text, i) == text[i + 1] = " "

\* "int end = pos + width; ... pos = end;": where the line that starts at pos ends
WrapEnd(text, pos, width) ==
    LET len == Len(text)
        end0 == IF pos + width > len THEN len ELSE pos + width
        spaces == {t \in (pos + 1)..end0 : IsSpaceAt(text, t)}
        tmp == IF spaces # {} THEN CHOOSE t \in spaces : \A u \in spaces : u <= t
               ELSE IF end0 > pos THEN pos ELSE end0
    IN IF end0 < len THEN (IF tmp = pos THEN pos + width ELSE tmp) ELSE end0

\* "while (pos < len && std::isspace(text[pos])) pos++;"
RECURSIVE SkipSpaces(_, _)
SkipSpaces(text, pos) ==
    IF pos < Len(text) /\ IsSpaceAt(text, pos) THEN SkipSpaces(text, pos + 1) ELSE pos

\* countWrappedLines: the test of empty text, one iteration of the loop, or
\* the return
W_CountStep ==
    /\ W_cRet = 0
    /\ W_cCount < W_MaxCount
    /\ IF W_text = << >> THEN W_cRet' = 1 /\ UNCHANGED << W_cPos, W_cCount >>
       ELSE IF W_cPos < Len(W_text)
       THEN /\ W_cPos' = SkipSpaces(W_text, WrapEnd(W_text, W_cPos, W_width))
            /\ W_cCount' = W_cCount + 1
            /\ W_cRet' = 0
       ELSE W_cRet' = W_cCount /\ UNCHANGED << W_cPos, W_cCount >>
    /\ UNCHANGED << W_text, W_width, W_dPos, W_dCount, W_dRet, W_drawn >>
    /\ UNCHANGED << now, varsF, varsN, varsS, varsV, varsP >>

\* a drawWrappedText that does not skip the spaces after a line
W_DrawStepNoSkip ==
    /\ W_dRet = 0
    /\ W_dCount < W_MaxCount
    /\ IF W_text = << >>
       THEN W_dRet' = 1 /\ W_drawn' = << << >> >> /\ UNCHANGED << W_dPos, W_dCount >>
       ELSE IF W_dPos < Len(W_text)
       THEN LET end == WrapEnd(W_text, W_dPos, W_width)
            IN /\ W_drawn' = Append(W_drawn, SubSeq(W_text, W_dPos + 1, end))
               /\ W_dPos' = end
               /\ W_dCount' = W_dCount + 1
               /\ W_dRet' = 0
       ELSE /\ W_dRet' = IF W_dCount > 0 THEN W_dCount ELSE 1
            /\ UNCHANGED << W_dPos, W_dCount, W_drawn >>
    /\ UNCHANGED << W_text, W_width, W_cPos, W_cCount, W_cRet >>
    /\ UNCHANGED << now, varsF, varsN, varsS, varsV, varsP >>

\* drawWrappedText: the test of empty text, one iteration of the loop, or the
\* return
W_DrawStep ==
    /\ W_dRet = 0
    /\ W_dCount < W_MaxCount
    /\ IF W_text = << >>
       THEN W_dRet' = 1 /\ W_drawn' = << << >> >> /\ UNCHANGED << W_dPos, W_dCount >>
       ELSE IF W_dPos < Len(W_text)
       THEN LET end == WrapEnd(W_text, W_dPos, W_width)
            IN /\ W_drawn' = Append(W_drawn, SubSeq(W_text, W_dPos + 1, end))
               /\ W_dPos' = SkipSpaces(W_text, end)
               /\ W_dCount' = W_dCount + 1
               /\ W_dRet' = 0
       ELSE /\ W_dRet' = IF W_dCount > 0 THEN W_dCount ELSE 1
            /\ UNCHANGED << W_dPos, W_dCount, W_drawn >>
    /\ UNCHANGED << W_text, W_width, W_cPos, W_cCount, W_cRet >>
    /\ UNCHANGED << now, varsF, varsN, varsS, varsV, varsP >>

\* both functions called with a text and a width
InitW(texts, widths) ==
    /\ W_text \in texts
    /\ W_width \in widths
    /\ W_cPos = 0
    /\ W_cCount = 0
    /\ W_cRet = 0
    /\ W_dPos = 0
    /\ W_dCount = 0
    /\ W_dRet = 0
    /\ W_drawn = << >>

InitF ==
    /\ F_currentFile = << >>
    /\ F_completedFile = << >>
    /\ F_fpc = "off"
    /\ F_currentTasks = << >>
    /\ F_completedTasks = << >>
    /\ F_nextText = 1
    /\ F_dpc = "poll"
    /\ F_dTasks = << >>
    /\ F_termFires = [t \in F_Texts |-> 0]
    /\ F_cycleFired = {}
    /\ F_fTear = FALSE
    /\ F_dTear = FALSE
    /\ F_tornRead = FALSE
    /\ F_deleted = {}

Init ==
    /\ now = Epoch0
    /\ InitF
    /\ InitN
    /\ InitS
    /\ InitP
    /\ InitW({<< >>}, {1})
    /\ InitV({"todo.cpp"}, {<< >>}, {1})

\* the list view started on any of the stores, in either program
InitView ==
    /\ now = Epoch0
    /\ InitF
    /\ InitN
    /\ InitS
    /\ InitP
    /\ InitW({<< >>}, {1})
    /\ InitV(V_Builds, V_Stores, 1..MaxVisible)

NextF ==
    \/ F_Start
    \/ \E h \in F_HoursInputs, f \in F_FreqInputs : F_AddTask(h, f)
    \/ \E i \in 1..F_MaxTasks, h \in F_HoursInputs : F_SetReminder(i, h)
    \/ \E i \in 1..F_MaxTasks, f \in F_FreqInputs : F_SetFreq(i, f)
    \/ \E i \in 1..F_MaxTasks : F_Complete(i)
    \/ \E c \in BOOLEAN, i \in 1..F_MaxTasks : F_Delete(c, i)
    \/ F_QuitTrunc
    \/ F_QuitFlush
    \/ F_DaemonPoll
    \/ F_DaemonTrunc
    \/ F_DaemonFlush
    \/ F_TickHour

NextN ==
    \/ N_Start
    \/ N_AddTask
    \/ \E i \in 1..MaxTasks : N_Complete(i)
    \/ \E c \in BOOLEAN, i \in 1..MaxTasks : N_Delete(c, i)
    \/ \E c \in BOOLEAN, i \in 0..MaxTasks, o \in N_Offsets : N_SetReminder(c, i, o)
    \/ N_Quit
    \/ N_DaemonPoll
    \/ N_TickSec

\* the foreground of todo.cpp alone, with the edit key; the text of a task is
\* read by no step of the daemon, which NextN runs
NextNE ==
    \/ N_Start
    \/ N_AddTask
    \/ \E i \in 1..MaxTasks : N_Complete(i)
    \/ \E c \in BOOLEAN, i \in 1..MaxTasks, e \in N_EditInputs : N_EditTask(c, i, e)
    \/ N_Quit

NextS ==
    \/ S_AddTask
    \/ \E p \in S_Instances, id \in 1..MaxTasks : S_CompleteFetch(p, id)
    \/ \E p \in S_Instances : S_CompleteMark(p)
    \/ \E v \in {0, 1}, id \in 1..MaxTasks : S_Delete(v, id)
    \/ \E id \in 1..MaxTasks, o \in S_Offsets : S_SetReminder(id, o)
    \/ S_DaemonFetch
    \/ S_DaemonFire
    \/ S_DaemonSleep
    \/ S_TickSec

\* the list view on the short stores
InitCategory ==
    /\ now = Epoch0
    /\ InitF
    /\ InitN
    /\ InitS
    /\ InitP
    /\ InitW({<< >>}, {1})
    /\ InitV(V_Builds, {V_WithIds(s) : s \in V_ShortStores}, {MaxVisible})

\* the keys of both programs that select a row and set its category
NextVC ==
    \/ N_KeyUp
    \/ N_KeyDown
    \/ N_SwitchView
    \/ \E c \in Categories : N_addCategoryOverlay(c)
    \/ S_KeyUp
    \/ S_KeyDown
    \/ S_SwitchView
    \/ \E c \in Categories : S_addCategoryOverlay(c)
    \/ N_completeTask
    \/ S_completeTaskUI
    \/ S_setReminderOverlay

NextP ==
    \/ \E o \in BOOLEAN : P_Start(o)
    \/ \E t \in P_Texts, c \in P_Categories, h \in F_HoursInputs, f \in F_HoursInputs :
          P_AddTask(t, c, h, f)
    \/ \E o \in BOOLEAN : P_Quit(o)
    \/ \E l \in BOOLEAN, o \in BOOLEAN, rc \in P_SystemResults : P_DaemonCycle(l, o, rc)
    \/ F_TickHour

\* the word wrap on every text and width
InitWrap ==
    /\ now = Epoch0
    /\ InitF
    /\ InitN
    /\ InitS
    /\ InitP
    /\ InitW(W_Texts, 0..W_MaxWidth)
    /\ InitV({"todo.cpp"}, {<< >>}, {1})

NextW ==
    \/ W_CountStep
    \/ W_DrawStep

NextV ==
    \/ N_KeyUp
    \/ N_KeyDown
    \/ N_KeyHome
    \/ N_KeyEnd
    \/ N_KeyPPage
    \/ N_KeyNPage
    \/ \E n \in 0..(LongTasks + 1) : N_gotoItem(n)
    \/ \E c \in Categories \cup {"All"} : N_listCategoriesOverlay(c)
    \/ N_SwitchView
    \/ N_deleteTask
    \/ S_KeyUp
    \/ S_KeyDown
    \/ S_KeyHome
    \/ S_KeyEnd
    \/ S_KeyPPage
    \/ S_KeyNPage
    \/ \E n \in 0..(LongTasks + 1) : S_gotoItem(n)
    \/ \E c \in Categories \cup {"All"} : S_listCategoriesOverlay(c)
    \/ S_SwitchView
    \/ S_deleteTaskUI

SpecF == Init /\ [][NextF]_vars

SpecN == Init /\ [][NextN]_vars

SpecNE == Init /\ [][NextNE]_vars

SpecS == Init /\ [][NextS]_vars

SpecV == InitView /\ [][NextV]_vars

SpecP == Init /\ [][NextP]_vars

SpecW == InitWrap /\ [][NextW]_vars

SpecVC == InitCategory /\ [][NextVC]_vars

Spec == SpecF

(***************************************************************************)
(* Properties of variant F.                                                *)
(***************************************************************************)

\* C1: a reminder with no repeat interval makes the daemon call the notifier at
\* most once between two set-reminder calls for its task, whatever the foreground
\* does in between (its save on quit included).
C1_FiresAtMostOnce ==
    \A t \in F_Texts : F_termFires[t] <= 1

\* C4: when the daemon fires a repeating reminder with epoch T and interval I at
\* any time at >= T, the epoch it writes back is T + I (never at + I), and it is
\* positive, so the reminder stays active.
C4_AnchoredReschedule ==
    F_dpc = "sleep" =>
        \A f \in F_cycleFired :
            /\ f.idx <= Len(F_currentFile)
            /\ F_currentFile[f.idx].re = f.T + f.I * HourSecs
            /\ F_currentFile[f.idx].re > 0

\* C4, witness: the daemon has written back a repeating reminder that it fired
\* two or more intervals after its epoch.
C4_FiredLate ==
    /\ F_dpc = "sleep"
    /\ \E f \in F_cycleFired : f.at >= f.T + 2 * f.I * HourSecs

\* the tasks of a list with the fields only the foreground changes
F_FgView(list) == [i \in 1..Len(list) |-> [task |-> list[i].task, ri |-> list[i].ri]]

\* C5: once the foreground has saved and ended and the daemon holds no copy of the
\* file, current.txt lists the tasks the foreground saved (F_currentTasks still
\* holds them), with their repeat intervals: none of its adds, deletes, completes
\* or edits has been undone by the daemon's write of an older copy.
C5_ForegroundSaveKept ==
    (F_fpc = "off" /\ F_dpc \in {"sleep", "poll"}) =>
        F_FgView(F_currentFile) = F_FgView(F_currentTasks)

\* C6: no load of current.txt falls between the truncation and the flush of the
\* other process's save of a non-empty list over a non-empty file.
C6_NoTornRead ==
    ~F_tornRead

\* C7: a task the foreground deleted while the daemon held it in the list of its
\* running iteration stays deleted: once the foreground has saved and ended,
\* current.txt holds no deleted task, whatever the daemon writes back.
C7_DeletedStaysDeleted ==
    F_fpc = "off" =>
        \A i \in 1..Len(F_currentFile) : F_currentFile[i].task \notin F_deleted

\* every repeat interval held by a list in memory or by current.txt
F_Intervals ==
    {F_currentTasks[i].ri : i \in 1..Len(F_currentTasks)}
        \cup {F_currentFile[i].ri : i \in 1..Len(F_currentFile)}
        \cup {F_dTasks[i].ri : i \in 1..Len(F_dTasks)}

N_CanStillFire(n) ==
    \E t \in now..(N_MaxNow + 1 + FireWindow) : t >= n.st /\ N_Due(n, t)

\* C2: a reminder stored with a scheduled time other than 0 and not yet triggered
\* is fired by some poll at or after its scheduled time, however late the first
\* such poll comes: so at no moment is such a reminder beyond every poll's test.
C2_PendingStaysFireable ==
    \A k \in 1..Len(N_notifFile) :
        (N_notifFile[k].st # 0 /\ ~N_notifFile[k].trig) => N_CanStillFire(N_notifFile[k])

\* the task was created, the user has not deleted it
N_Kept(id) == id \in 1..(N_nextText - 1) /\ id \notin N_deleted
N_Lists(list, id) == \E j \in 1..Len(list) : list[j].id = id

\* C8: whenever the program shows its lists, every task created and not deleted
\* is in exactly one of the current list and the completed list.
C8_Partition ==
    N_fpc = "ui" =>
        \A id \in 1..MaxTasks :
            N_Kept(id) => (N_Lists(N_currentTasks, id) # N_Lists(N_completedTasks, id))

\* the user deleted the task and todo.db no longer holds it
N_Gone(id) == id \in N_deleted /\ ~N_Lists(N_todoFile, id)

\* C10: once a task is deleted, notifications.db holds no reminder that was set
\* for it, and the daemon fires no reminder of it.
C10_DeleteRemovesReminder ==
    /\ \A k \in 1..Len(N_notifFile) : ~N_Gone(N_notifFile[k].owner)
    /\ ~N_firedGone

\* the identities of the tasks of a list
N_Ids(list) == {list[j].id : j \in 1..Len(list)}

\* C15: while the lists are shown, a step that removes a task from the store
\* (allTasks, the list that is saved) removes the task the user selected for
\* deletion and no other, also when tasks share their creation second.
C15_ActsOnSelected ==
    [][(N_fpc = "ui" /\ N_fpc' = "ui") =>
          (N_Ids(N_allTasks) \ N_Ids(N_allTasks')) \subseteq (N_deleted' \ N_deleted)]_vars

\* C34: editing the text of the selected task changes no other record of allTasks.
C34_EditChangesOneRecord ==
    [][\A c \in BOOLEAN, i \in 1..MaxTasks, e \in N_EditInputs :
          N_EditTask(c, i, e) =>
              \A j \in 1..Len(N_allTasks) :
                  N_allTasks[j].id # N_View(c)[i].id => N_allTasks'[j] = N_allTasks[j]]_vars

\* C35: while the lists are shown, currentTasks and completedTasks together hold
\* exactly the records of allTasks.
C35_ViewsAgreeWithMaster ==
    N_fpc = "ui" =>
        /\ Len(N_currentTasks) + Len(N_completedTasks) = Len(N_allTasks)
        /\ {N_currentTasks[j] : j \in 1..Len(N_currentTasks)}
               \cup {N_completedTasks[j] : j \in 1..Len(N_completedTasks)}
             = {N_allTasks[j] : j \in 1..Len(N_allTasks)}

\* C23: every task in a list of the program or in todo.db has a non-empty text.
C23_TextNeverEmpty ==
    \A list \in {N_allTasks, N_currentTasks, N_completedTasks, N_todoFile} :
        \A j \in 1..Len(list) : list[j].task # 0

(***************************************************************************)
(* Properties of variant S.                                                *)
(***************************************************************************)

\* C3: the daemon never calls the notifier for a reminder whose scheduled time is
\* 0, or is later than the current time, or whose triggered flag is set.
C3_FiresOnlyDue ==
    ~S_badFire

\* C9: the completed_at of a completed task is the second of its first completion,
\* whatever completions came after it.
C9_FirstCompletionWins ==
    \A t \in S_tasks : t.completed = 1 => t.completed_at = S_firstDone[t.id]

\* C11: after any sequence of reminders set on one task, the task has at most one
\* active reminder (untriggered, scheduled time not 0): the one set last.
C11_OneActiveReminder ==
    \A id \in 1..MaxTasks :
        Cardinality({n \in S_notifs : n.task_id = id /\ n.trig = 0 /\ n.st # 0}) <= 1

(***************************************************************************)
(* Properties of the list view.                                            *)
(***************************************************************************)

\* the tasks of the partition c of the store, in creation order
PartitionOf(store, c) ==
    LET In(t) == t.completed = (c = 1)
    IN SelectSeq(store, In)

\* the tasks of list whose category is cat, in the order of list
WithCategory(list, cat) ==
    LET Has(t) == t.category = cat
    IN SelectSeq(list, Has)

\* C12: in both programs, for every store, partition c and category X, the list
\* filtered by X is the subsequence of the "All" list made of the tasks of category
\* X, in the same order; the "All" list is the whole partition.
C12_FilterIsSubsequence ==
    \A c \in {0, 1} :
        /\ S_fetchTasks(V_store, c, "All") = PartitionOf(V_store, c)
        /\ N_filtered(V_store, c, "All") = PartitionOf(V_store, c)
        /\ \A X \in Categories :
              /\ S_fetchTasks(V_store, c, X)
                    = WithCategory(S_fetchTasks(V_store, c, "All"), X)
              /\ N_filtered(V_store, c, X)
                    = WithCategory(N_filtered(V_store, c, "All"), X)

\* C12, its case: a category filter is active and the list on screen has several
\* tasks, fewer than the partition
C12_FilteredShown ==
    /\ V_build = "part_002"
    /\ V_activeFilterCategory # "All"
    /\ Len(V_gTasks) >= 2
    /\ Len(V_gTasks) < Len(S_fetchTasks(V_store, V_viewMode, "All"))

\* the filtered list of the active view
V_Shown == V_Filtered(V_store, V_viewMode, V_activeFilterCategory)

\* selectedIndex is a row of the filtered list, or 0 if the list is empty
V_InRange ==
    IF V_Shown = << >> THEN V_selectedIndex = 0
    ELSE V_selectedIndex \in 0..(Len(V_Shown) - 1)

\* C13: after every redraw selectedIndex is the value the handler left, brought
\* into [0, length - 1] of the filtered list (0 if the list is empty), and every
\* row on screen is a row of the filtered list.
C13_ClampedAfterRedraw ==
    /\ V_InRange
    /\ V_Shown # << >> =>
          V_selectedIndex = Min2(IF V_preSel < 0 THEN 0 ELSE V_preSel, Len(V_Shown) - 1)
    /\ V_drawn \subseteq 0..(Len(V_Shown) - 1)

\* C13, its case: a redraw found selectedIndex = 10 with a filtered list of 5 rows
\* and left it at 4
C13_TenBecomesFour ==
    /\ Len(V_Shown) = 5
    /\ V_preSel = 10
    /\ V_selectedIndex = 4

\* C14: the row of the selected task is among the rows the redraw has drawn.
C14_SelectedRowDrawn ==
    V_Shown # << >> => V_selectedIndex \in V_drawn

\* a step of one of the navigation keys
V_NavKey ==
    \/ N_KeyUp \/ N_KeyDown \/ N_KeyHome \/ N_KeyEnd \/ N_KeyPPage \/ N_KeyNPage
    \/ S_KeyUp \/ S_KeyDown \/ S_KeyHome \/ S_KeyEnd \/ S_KeyPPage \/ S_KeyNPage

\* C16: after each of the keys up, down, home, end, page-up and page-down
\* selectedIndex is a row of the filtered list of the active view, or 0 if that
\* list is empty.
C16_NavStaysInRange ==
    [][V_NavKey => V_InRange']_vars

\* C16, its case: page-down on an empty list left selectedIndex = -1 for the redraw
C16_PageDownOnEmpty ==
    /\ V_Shown = << >>
    /\ V_preSel = 0 - 1
    /\ V_selectedIndex = 0

\* what goto N has to select: the row, in the filtered list, of the N-th task of
\* the unfiltered partition of the active view; the old selection if N is out of
\* range or that task is filtered out
V_GotoTarget(itemNum) ==
    LET part == PartitionOf(V_store, V_viewMode)
        rows == {k \in 1..Len(V_Shown) :
                    itemNum \in 1..Len(part) /\ V_Shown[k].id = part[itemNum].id}
    IN IF rows = {} THEN V_selectedIndex ELSE (CHOOSE k \in rows : TRUE) - 1

\* C17: goto N selects the row of the N-th task of the unfiltered partition, and
\* changes neither the selection nor the filter if that task is filtered out or N
\* is out of range.
C17_GotoByUnfilteredPosition ==
    [][\A n \in 0..(LongTasks + 1) :
          (N_gotoItem(n) \/ S_gotoItem(n)) =>
              /\ V_selectedIndex' = V_GotoTarget(n)
              /\ V_activeFilterCategory' = V_activeFilterCategory]_vars

\* C18: a switch of the view sets selectedIndex to 0 and keeps the category
\* filter; if no task of the new view has that category the list is empty.
C18_SwitchKeepsFilter ==
    [][(N_SwitchView \/ S_SwitchView) =>
          /\ V_viewMode' = 1 - V_viewMode
          /\ V_selectedIndex' = 0
          /\ V_activeFilterCategory' = V_activeFilterCategory
          /\ WithCategory(PartitionOf(V_store, 1 - V_viewMode), V_activeFilterCategory)
                = << >> /\ V_activeFilterCategory # "All" => V_Shown' = << >>]_vars

\* C18, its case: the completed view was switched to under a filter that none of
\* its tasks has
C18_SwitchedToEmpty ==
    /\ V_viewMode = 1
    /\ V_activeFilterCategory # "All"
    /\ PartitionOf(V_store, 1) # << >>
    /\ V_Shown = << >>
    /\ V_selectedIndex = 0

\* C19: a change of the category filter leaves selectedIndex at
\* min(old selectedIndex, new length - 1), or 0 if the new list is empty.
C19_FilterKeepsSelection ==
    [][\A c \in Categories \cup {"All"} :
          (N_listCategoriesOverlay(c) \/ S_listCategoriesOverlay(c)) =>
              /\ V_activeFilterCategory' = c
              /\ V_selectedIndex' = IF V_Shown' = << >> THEN 0
                                    ELSE Min2(V_selectedIndex, Len(V_Shown') - 1)]_vars

\* C19, its case: a filter is active that hides some tasks, and the selection is
\* still the row, other than the first, it was on
C19_SelectionKept ==
    /\ V_activeFilterCategory # "All"
    /\ Len(V_Shown) < Len(PartitionOf(V_store, V_viewMode))
    /\ V_selectedIndex > 0
    /\ V_preSel = V_selectedIndex

\* the categories the filter menu of the running program offers
V_Menu ==
    (IF V_build = "todo.cpp" THEN N_catList(V_store, V_viewMode)
     ELSE S_catList(V_store)) \ {"All"}

\* C22: the categories offered for the viewed partition are exactly the non-empty
\* categories of the tasks of that partition.
C22_MenuOfPartition ==
    LET part == PartitionOf(V_store, V_viewMode)
    IN V_Menu = {part[i].category : i \in 1..Len(part)} \ {""}

\* C24: markTaskCompleted called with an id that no row of tasks has reports a
\* failure, and reports success for an id that exists.
C24_MissingIdReported ==
    [][\A p \in S_Instances :
          S_CompleteMark(p) =>
              (S_StepDone(S_tasks, S_cSel[p]) <=> (\E t \in S_tasks : t.id = S_cSel[p]))]_vars

\* C25: a task that is not completed has no completed_at and a completed task has
\* one; completed_at changes only in a step that takes completed from 0 to 1.
C25_CompletedAtSetOnce ==
    /\ [](\A t \in S_tasks : (t.completed = 0) <=> (t.completed_at = 0))
    /\ [][\A t \in S_tasks, u \in S_tasks' :
            (t.id = u.id /\ t.completed_at # u.completed_at) =>
                (t.completed = 0 /\ u.completed = 1)]_vars

\* C26: the Current and the Completed list are each in ascending order of
\* creation time.
C26_ListsByCreation ==
    \A list \in {N_currentTasks, N_completedTasks} :
        \A j \in 1..Len(list), k \in 1..Len(list) :
            j < k => list[j].d0 <= list[k].d0

\* C27: after the 's' overlay was given the empty string for a task, that task
\* has the empty category.
C27_EmptyClearsCategory ==
    \A i \in 1..Len(V_store) :
        (V_store[i].id = V_sKey.id /\ V_sKey.cat = "") => V_store[i].category = ""

\* C28: the daemon of variant P is never ended by a record of current.txt.
C28_LoopSurvivesRecords ==
    P_daemon = "run"

\* C29: a start of the foreground whose load could not open current.txt does not
\* leave the program with the empty task list, the result of loading an empty store.
C29_FailedLoadNotEmptyList ==
    [][P_Start(FALSE) => P_tasks' # loadTasks(<< >>, TRUE)]_vars

\* C30: a poll cycle that could not open current.txt for reading leaves every due
\* record in the file, for a later cycle to fire it.
C30_DueKeptByFailedCycle ==
    [][\A o \in BOOLEAN, rc \in P_SystemResults :
          P_DaemonCycle(FALSE, o, rc) =>
              \A i \in 1..Len(P_file) :
                  F_Due(Stol(extendedSplitTaskLine(P_file[i]).re), now) =>
                      \E j \in 1..Len(P_file') : P_file'[j] = P_file[i]]_vars

\* C31: a poll cycle that loads and saves current.txt writes every record that
\* was due back changed, whatever status the notifier returned for it.
C31_FiredIsAdvanced ==
    [][\A rc \in P_SystemResults :
          (P_DaemonCycle(TRUE, TRUE, rc) /\ P_daemon' = "run") =>
              LET loaded == loadTasks(P_file, TRUE)
              IN /\ Len(P_file') = Len(loaded)
                 /\ \A j \in 1..Len(loaded) :
                        F_Due(Stol(loaded[j].re), now) =>
                            P_file'[j] # extendedJoinTaskLine(loaded[j])]_vars

\* the notifier has failed for a task whose record is in the file, not due any more
C31_FailedNotifierAdvanced ==
    \E c \in P_notified, j \in 1..Len(P_file) :
        /\ c.rc # 0
        /\ extendedSplitTaskLine(P_file[j]).task = c.body
        /\ Stol(extendedSplitTaskLine(P_file[j]).re) # NoConversion
        /\ ~F_Due(Stol(extendedSplitTaskLine(P_file[j]).re), now)

\* C32: the complete key pressed in the Completed view changes no task.
C32_CompleteKeyInCompletedView ==
    [][((N_completeTask \/ S_completeTaskUI) /\ V_viewMode = 1) => V_store' = V_store]_vars

\* C33: a task that gets a reminder by the reminder key of the SQLite UI is the
\* task of the active view's list at selectedIndex.
C33_ReminderOnSelected ==
    [][S_setReminderOverlay =>
          \A id \in V_reminded' \ V_reminded :
              LET shown == S_fetchTasks(V_store, V_viewMode, V_activeFilterCategory)
              IN V_selectedIndex < Len(shown) /\ shown[V_selectedIndex + 1].id = id]_vars

\* C36: fetchTasks returns every task of the asked partition in exactly one row.
C36_OneRowPerTask ==
    \A c \in {0, 1} : \A t \in S_tasks :
        t.completed = c =>
            Cardinality({r \in S_fetchTasksRows(S_tasks, S_notifs, c) : r.task = t.id}) = 1

\* C37: loading the file that saveTasks writes for the task list in memory yields
\* the same list.
C37_SaveLoadRoundTrip ==
    loadTasks(saveTasks(P_file, P_tasks, TRUE), TRUE) = P_tasks

\* C38: every iteration of the two wrap loops moves pos forward, so that the loops
\* end when pos reaches the length of the text, and the value returned is at
\* least 1.
C38_WrapAdvances ==
    /\ [](W_cRet >= 0 /\ W_dRet >= 0)
    /\ [][/\ (W_CountStep /\ W_cRet' = 0) => W_cPos' > W_cPos
          /\ (W_DrawStep /\ W_dRet' = 0) => W_dPos' > W_dPos]_vars

\* C40: for a width of at least 1, countWrappedLines returns the number of lines
\* drawWrappedText draws and returns.
C40_CountEqualsDrawn ==
    (W_width >= 1 /\ W_cRet # 0 /\ W_dRet # 0) =>
        (W_cRet = W_dRet /\ W_cRet = Len(W_drawn))

\* both have returned for a text that wraps to several lines
C40_SeveralLines ==
    W_width >= 1 /\ W_cRet >= 2 /\ W_dRet >= 2

\* C39: after an up or down key of the SQLite foreground the scroll offset in
\* effect is the offset a full redraw computes for the same task list and
\* selected index.
C39_KeyOffsetIsFullRedrawOffset ==
    [][(S_KeyUp \/ S_KeyDown) =>
          V_scrollOffset' =
              S_drawListUIFull(V_store, V_viewMode, V_activeFilterCategory,
                               V_selectedIndex', V_visibleLines).off]_vars

\* C20: every reminder row a step stores has scheduled time 0 (no reminder) or a
\* scheduled time between one hour and seven days after the moment it is set.
C20_StoredWithinClamp ==
    [][\A n \in S_notifs' \ S_notifs :
          n.st # 0 => (/\ n.st >= now + HourSecs
                       /\ n.st <= now + MaxReminderHours * HourSecs)]_vars

====
